---------------------------- MODULE Spec2Model ----------------------------
(***************************************************************************)
(* A model of the recording-to-cleaned-text pipeline of yap-to-text:       *)
(*   - the recording session of src-tauri/src/audio.rs (start_recording,   *)
(*     stop_recording, the capture thread and its input callback);         *)
(*   - the transcribe_and_cleanup workflow of src-tauri/src/lib.rs and     *)
(*     OllamaClient::cleanup_text of src-tauri/src/ollama.rs.              *)
(*                                                                         *)
(* Spec          the recording session, one controller issuing commands    *)
(*               one after the other, the capture threads running          *)
(*               concurrently with it.                                     *)
(* SpecWorkflow  one transcribe_and_cleanup or cleanup_text command at a   *)
(*               time, the configuration commands interleaved with it.     *)
(* SpecPure      the functions that depend on their arguments only         *)
(*               (samples_to_wav / wav_to_samples, resample, the cleaning  *)
(*               of a response, check_availability on what the probe       *)
(*               meets, from_str / as_str), each applied to inputs drawn   *)
(*               at the start.                                             *)
(* SpecFair      Spec with the scheduling of the capture threads and of a  *)
(*               call in progress (for what must eventually happen).       *)
(* SpecConcurrent  two threads inside start_recording at once.             *)
(* SpecBeside    one workflow and one recording session on the same        *)
(*               application state.                                        *)
(***************************************************************************)
EXTENDS Integers, Sequences, FiniteSets, TLC

VARIABLES
    \* ---- audio.rs: RecordingState (lines 15-20)
    samples,             \* Vec<f32>: each sample is tagged with the capture thread that pushed it
    is_recording,        \* AtomicBool
    sample_rate,         \* u32
    selected_device_id,  \* Option<String>
    \* ---- audio.rs: the capture threads spawned at line 101
    thread,              \* thread id -> [st, channels, cb]
    \* ---- the controller(s) calling the audio commands
    pc,                  \* caller -> position inside start_recording / stop_recording
    loc,                 \* caller -> locals of the call in progress
    ret,                 \* caller -> what its last call returned
    \* ---- lib.rs: AppState (lines 23-28) and the command in progress
    whisper,             \* Mutex<Option<WhisperTranscriber>>: TRUE when Some
    ollama,              \* Mutex<OllamaClient>: [model, enabled]
    wf,                  \* the transcribe_and_cleanup / cleanup_text call in progress
    \* ---- a call of one of the pure functions, on its own
    calc                 \* [fn, stage, arg, out]

recVars == <<samples, is_recording, sample_rate, selected_device_id, thread, pc, loc, ret>>
wfVars  == <<whisper, ollama, wf>>
vars    == <<samples, is_recording, sample_rate, selected_device_id, thread, pc, loc, ret,
             whisper, ollama, wf, calc>>

(***************************************************************************)
(* Bounds of the model.                                                    *)
(***************************************************************************)
MaxThreads == 2     \* capture threads spawned in one behaviour
MaxSamples == 4     \* length of the sample buffer
MaxBlock   == 2     \* frames delivered by one input callback
MaxConfigs == 2     \* supported input configs a device lists
MaxTextLen == 3     \* symbols in a transcribed or submitted text
MaxAnswerLen == 2   \* symbols in a response of the text-generation service
MaxHead    == 2     \* leading samples of a container that are spelled out

None == "none"

Callers   == {1}
ThreadIds == 1 .. MaxThreads

CANONICAL_RATE == 16000
Rates     == {16000, 48000}
DeviceIds == {"micA"}
Configs   == [channels : {1, 2}, rate : Rates]

SeqsUpTo(S, n) == UNION {[1 .. k -> S] : k \in 0 .. n}

(***************************************************************************)
(* Binary floating point (f32: 24 significant bits, f64: 53), as far as    *)
(* audio.rs uses it.  A positive float is [bits, lsb]: its significand as  *)
(* a sequence of bits, most significant first and leading bit 1, and the   *)
(* exponent of its last bit: the value is BitsToInt(bits) * 2^lsb.         *)
(* Results are rounded to nearest, ties to even.                           *)
(***************************************************************************)
F32Bits == 24
F64Bits == 53

\* the bits of v, in front of acc
RECURSIVE IntToBits(_, _)
IntToBits(v, acc) == IF v = 0 THEN acc ELSE IntToBits(v \div 2, <<v % 2>> \o acc)

\* the integer that acc followed by the bits of s from position i on spells
RECURSIVE BitsToInt(_, _, _)
BitsToInt(s, i, acc) == IF i > Len(s) THEN acc ELSE BitsToInt(s, i + 1, 2 * acc + s[i])

\* s + 1, one bit longer when the carry runs out of s
IncBits(s) ==
    LET zeros == {i \in 1 .. Len(s) : s[i] = 0}
        z == CHOOSE i \in zeros : \A j \in zeros : j <= i
    IN  IF zeros = {} THEN <<1>> \o [i \in 1 .. Len(s) |-> 0]
        ELSE [i \in 1 .. Len(s) |-> IF i < z THEN s[i] ELSE IF i = z THEN 1 ELSE 0]

\* s[1 .. i] * n + carry, in front of acc, for a small integer n
RECURSIVE MulBits(_, _, _, _, _)
MulBits(s, n, i, carry, acc) ==
    IF i = 0 THEN IntToBits(carry, acc)
    ELSE MulBits(s, n, i - 1, (s[i] * n + carry) \div 2, <<(s[i] * n + carry) % 2>> \o acc)

\* acc followed by the next k bits of the binary expansion of r / den
\* (r < den), and what is left of the dividend
RECURSIVE DivBits(_, _, _, _)
DivBits(r, den, k, acc) ==
    IF k = 0 THEN [bits |-> acc, rem |-> r]
    ELSE IF 2 * r >= den THEN DivBits(2 * r - den, den, k - 1, Append(acc, 1))
    ELSE DivBits(2 * r, den, k - 1, Append(acc, 0))

\* a / b = (num / den) * 2^exp with den <= num < 2 * den
RECURSIVE Normalized(_, _, _)
Normalized(a, b, e) ==
    IF a >= 2 * b THEN Normalized(a, 2 * b, e + 1)
    ELSE IF a < b THEN Normalized(2 * a, b, e - 1)
    ELSE [num |-> a, den |-> b, exp |-> e]

\* the exact value s * 2^lsb (s with leading bit 1; sticky: a non-zero rest
\* below the last bit of s) rounded to p significant bits
RoundBits(s, lsb, sticky, p) ==
    IF Len(s) <= p
    THEN [bits |-> s \o [i \in 1 .. p - Len(s) |-> 0], lsb |-> lsb - (p - Len(s))]
    ELSE LET keep == SubSeq(s, 1, p)
             rest == sticky \/ \E i \in p + 2 .. Len(s) : s[i] = 1
             up   == s[p + 1] = 1 /\ (rest \/ keep[p] = 1)
             inc  == IncBits(keep)
             x    == lsb + (Len(s) - p)
         IN  IF ~up THEN [bits |-> keep, lsb |-> x]
             ELSE IF Len(inc) > p THEN [bits |-> SubSeq(inc, 1, p), lsb |-> x + 1]
             ELSE [bits |-> inc, lsb |-> x]

\* a as T / b as T, for positive integers that T holds exactly
FloatDiv(a, b, p) ==
    LET n == Normalized(a, b, 0)
        q == DivBits(n.num - n.den, n.den, p, <<1>>)
    IN  RoundBits(q.bits, n.exp - p, q.rem # 0, p)

\* f * (n as T), for a positive integer n that T holds exactly
FloatMulInt(f, n, p) == RoundBits(MulBits(f.bits, n, Len(f.bits), 0, <<>>), f.lsb, FALSE, p)

\* f as usize (or as i16 within its range): the integer part
FloatTrunc(f) ==
    IF f.lsb >= 0 THEN BitsToInt(f.bits \o [i \in 1 .. f.lsb |-> 0], 1, 0)
    ELSE IF 0 - f.lsb >= Len(f.bits) THEN 0
    ELSE BitsToInt(SubSeq(f.bits, 1, Len(f.bits) + f.lsb), 1, 0)

\* A significand as four limbs of LimbBits bits, most significant first, for
\* the division by a float (whose significand no integer of the checker holds).
LimbBits == 14
LimbBase == 16384
ToLimbs(s) ==
    LET padded == [i \in 1 .. 4 * LimbBits - Len(s) |-> 0] \o s
    IN  [k \in 1 .. 4 |-> BitsToInt(SubSeq(padded, LimbBits * (k - 1) + 1, LimbBits * k), 1, 0)]
LimbsLess(a, b) == \E k \in 1 .. 4 : a[k] < b[k] /\ \A j \in 1 .. k - 1 : a[j] = b[j]
LimbsDouble(a) ==
    LET d4 == 2 * a[4]
        d3 == 2 * a[3] + d4 \div LimbBase
        d2 == 2 * a[2] + d3 \div LimbBase
        d1 == 2 * a[1] + d2 \div LimbBase
    IN  <<d1, d2 % LimbBase, d3 % LimbBase, d4 % LimbBase>>
\* a - b for a >= b
LimbsSub(a, b) ==
    LET s4 == a[4] - b[4]
        s3 == a[3] - b[3] - (IF s4 < 0 THEN 1 ELSE 0)
        s2 == a[2] - b[2] - (IF s3 < 0 THEN 1 ELSE 0)
        s1 == a[1] - b[1] - (IF s2 < 0 THEN 1 ELSE 0)
    IN  <<s1, (s2 + LimbBase) % LimbBase, (s3 + LimbBase) % LimbBase, (s4 + LimbBase) % LimbBase>>

\* acc followed by the next k bits of the binary expansion of r / den
\* (r < den, both as limbs), and whether anything is left of the dividend
RECURSIVE QuotBits(_, _, _, _)
QuotBits(r, den, k, acc) ==
    IF k = 0 THEN [bits |-> acc, rest |-> r # <<0, 0, 0, 0>>]
    ELSE LET d == LimbsDouble(r)
         IN  IF LimbsLess(d, den) THEN QuotBits(d, den, k - 1, Append(acc, 0))
             ELSE QuotBits(LimbsSub(d, den), den, k - 1, Append(acc, 1))

\* (n as T) / f, for a positive integer n that T holds exactly and a float f
\* of p significant bits
IntDivFloat(n, f, p) ==
    LET nb  == IntToBits(n, <<>>)
        num == ToLimbs(nb \o [i \in 1 .. p - Len(nb) |-> 0])
        den == ToLimbs(f.bits)
        e   == 0 - (p - Len(nb)) - f.lsb
        q   == IF LimbsLess(num, den) THEN QuotBits(num, den, p + 1, <<>>)
               ELSE QuotBits(LimbsSub(num, den), den, p, <<1>>)
    IN  IF LimbsLess(num, den) THEN RoundBits(q.bits, e - (p + 1), q.rest, p)
        ELSE RoundBits(q.bits, e - p, q.rest, p)

(***************************************************************************)
(* audio.rs: pure helpers                                                  *)
(***************************************************************************)

NoConfig == [channels |-> 0, rate |-> 0]

\* audio.rs:73-85: the first mono config, else the first config, at its
\* maximum sample rate; None when the device lists no config.
SelectConfig(list) ==
    LET mono == {i \in 1 .. Len(list) : list[i].channels = 1}
    IN  IF mono # {} THEN list[CHOOSE i \in mono : \A j \in mono : i <= j]
        ELSE IF Len(list) > 0 THEN list[1]
        ELSE NoConfig

\* audio.rs:179-180: ratio = to as f64 / from as f64;
\* new_len = (len as f64 * ratio) as usize.  Both operations round.
ResampleLenRounded(n, from_rate, to_rate) == (2 * n * to_rate + from_rate) \div (2 * from_rate)
ResampleLen(n, from_rate, to_rate) ==
    IF n = 0 THEN 0
    ELSE FloatTrunc(FloatMulInt(FloatDiv(to_rate, from_rate, F64Bits), n, F64Bits))

\* audio.rs:184-185: src_idx = i as f64 / ratio; src_idx_floor = src_idx.floor() as usize
SrcIdxFloor(i, from_rate, to_rate) ==
    IF i = 0 THEN 0
    ELSE FloatTrunc(IntDivFloat(i, FloatDiv(to_rate, from_rate, F64Bits), F64Bits))

\* audio.rs:186: src_idx_ceil = (src_idx_floor + 1).min(samples.len() - 1)
SrcIdxCeilUnclamped(floor, n) == floor + 1
SrcIdxCeil(floor, n) == IF floor + 1 <= n - 1 THEN floor + 1 ELSE n - 1

\* audio.rs:197-224 with 162-172: the container stop_recording returns,
\* described by its header fields and the number of samples written.
EncodedWav(snapshot, rate) ==
    [channels    |-> 1,
     sample_rate |-> 16000,
     bits        |-> 16,
     frames      |-> IF rate # CANONICAL_RATE
                     THEN ResampleLen(Len(snapshot), rate, CANONICAL_RATE)
                     ELSE Len(snapshot)]

NoBytes == [channels |-> 0, sample_rate |-> 0, bits |-> 0, frames |-> 0]

NoRet == [op |-> None, res |-> None, bytes |-> NoBytes]
NoLoc == [cfg |-> NoConfig, snapshot |-> <<>>, clears |-> 0]

\* a call returns: its result is recorded and its locals are dropped
Returned(p, op, res, bytes) ==
    /\ ret' = [ret EXCEPT ![p] = [op |-> op, res |-> res, bytes |-> bytes]]
    /\ loc' = [loc EXCEPT ![p] = NoLoc]
    /\ pc' = [pc EXCEPT ![p] = "idle"]

\* a thread that has ended: its stream and its captured config are dropped
Dead(how) == [st |-> how, channels |-> 1, cb |-> FALSE]

Spawned == {t \in ThreadIds : thread[t].st # "unborn"}
\* a capture loop that owns a device stream (built at line 102-126, dropped at 135)
Alive   == {t \in ThreadIds : thread[t].st \in {"built", "playing"}}

\* callbacks that have read the flag as set and are about to append
InCallback == {t \in ThreadIds : thread[t].cb}

(***************************************************************************)
(* audio.rs: start_recording                                               *)
(***************************************************************************)

\* audio.rs:42: the guard of start_recording
AlreadyRecordingCheckOff == FALSE
AlreadyRecordingCheck == is_recording

\* audio.rs:41-44: entry; rejected while the flag is set
StartRecording_Enter(p) ==
    /\ pc[p] = "idle"
    /\ Cardinality(Spawned) < MaxThreads
    /\ IF AlreadyRecordingCheck
       THEN Returned(p, "start_recording", "AlreadyRecording", NoBytes)
       ELSE /\ pc' = [pc EXCEPT ![p] = "start_clear"]
            /\ loc' = [loc EXCEPT ![p] = NoLoc]
            /\ UNCHANGED ret
    /\ UNCHANGED <<samples, is_recording, sample_rate, selected_device_id, thread, wfVars, calc>>

\* audio.rs:46-50: clear previous samples
StartRecording_Clear(p) ==
    /\ pc[p] = "start_clear"
    /\ samples' = <<>>
    /\ loc' = [loc EXCEPT ![p].clears = @ + 1]
    /\ pc' = [pc EXCEPT ![p] = "start_device"]
    /\ UNCHANGED <<is_recording, sample_rate, selected_device_id, thread, ret, wfVars, calc>>

\* audio.rs:52-85: resolve the device (selected by name, else the default) and
\* negotiate a config; every device-layer failure returns early.
StartRecording_Device(p) ==
    /\ pc[p] = "start_device"
    /\ \/ \E err \in IF selected_device_id # None
                     THEN {"DeviceEnumerationError", "SelectedDeviceNotFound"}
                     ELSE {"NoInputDevice"} :
            Returned(p, "start_recording", err, NoBytes)
       \/ Returned(p, "start_recording", "ConfigQueryError", NoBytes)
       \/ \E list \in SeqsUpTo(Configs, MaxConfigs) :
            IF SelectConfig(list) = NoConfig
            THEN Returned(p, "start_recording", "NoSupportedConfig", NoBytes)
            ELSE /\ loc' = [loc EXCEPT ![p].cfg = SelectConfig(list)]
                 /\ pc' = [pc EXCEPT ![p] = "start_rate"]
                 /\ UNCHANGED ret
    /\ UNCHANGED <<samples, is_recording, sample_rate, selected_device_id, thread, wfVars, calc>>

\* audio.rs:87-90: record the negotiated sample rate
StartRecording_Rate(p) ==
    /\ pc[p] = "start_rate"
    /\ sample_rate' = loc[p].cfg.rate
    /\ pc' = [pc EXCEPT ![p] = "start_flag"]
    /\ UNCHANGED <<samples, is_recording, selected_device_id, thread, loc, ret, wfVars, calc>>

\* audio.rs:97-98: set the recording flag
StartRecording_Flag(p) ==
    /\ pc[p] = "start_flag"
    /\ is_recording' = TRUE
    /\ pc' = [pc EXCEPT ![p] = "start_spawn"]
    /\ UNCHANGED <<samples, sample_rate, selected_device_id, thread, loc, ret, wfVars, calc>>

\* audio.rs:100-101, 136-138: spawn the capture thread and return Ok
StartRecording_Spawn(p) ==
    /\ pc[p] = "start_spawn"
    /\ \E t \in ThreadIds :
         /\ thread[t].st = "unborn"
         /\ \A u \in ThreadIds : thread[u].st = "unborn" => t <= u
         /\ thread' = [thread EXCEPT ![t] = [st |-> "spawned",
                                              channels |-> loc[p].cfg.channels,
                                              cb |-> FALSE]]
    /\ Returned(p, "start_recording", "Ok", NoBytes)
    /\ UNCHANGED <<samples, is_recording, sample_rate, selected_device_id, wfVars, calc>>

(***************************************************************************)
(* audio.rs: the capture thread (lines 101-136)                            *)
(***************************************************************************)

\* audio.rs:102-126: build_input_stream; .expect panics the thread on failure
Capture_Build(t) ==
    /\ thread[t].st = "spawned"
    /\ \E ok \in BOOLEAN :
         thread' = [thread EXCEPT ![t] = IF ok THEN [@ EXCEPT !.st = "built"] ELSE Dead("panicked")]
    /\ UNCHANGED <<samples, is_recording, sample_rate, selected_device_id, pc, loc, ret, wfVars, calc>>

\* audio.rs:128: stream.play(); .expect panics the thread (dropping the stream)
Capture_Play(t) ==
    /\ thread[t].st = "built"
    /\ \E ok \in BOOLEAN :
         thread' = [thread EXCEPT ![t] = IF ok THEN [@ EXCEPT !.st = "playing"] ELSE Dead("panicked")]
    /\ UNCHANGED <<samples, is_recording, sample_rate, selected_device_id, pc, loc, ret, wfVars, calc>>

\* audio.rs:130-135: the polling loop; leaves (dropping the stream) once the
\* flag reads false. Dropping the stream waits for a callback in progress.
Capture_Poll(t) ==
    /\ thread[t].st = "playing"
    /\ IF is_recording
       THEN UNCHANGED thread
       ELSE /\ ~thread[t].cb
            /\ thread' = [thread EXCEPT ![t] = Dead("exited")]
    /\ UNCHANGED <<samples, is_recording, sample_rate, selected_device_id, pc, loc, ret, wfVars, calc>>

\* audio.rs:105-108: the input callback reads the flag; a block delivered
\* while the flag is false is discarded.  (A block is delivered only while
\* the modelled buffer has room for it and for the blocks being appended.)
Callback_Check(t) ==
    /\ thread[t].st = "playing"
    /\ ~thread[t].cb
    /\ Len(samples) + MaxBlock * (1 + Cardinality(InCallback)) <= MaxSamples
    /\ thread' = [thread EXCEPT ![t].cb = is_recording]
    /\ UNCHANGED <<samples, is_recording, sample_rate, selected_device_id, pc, loc, ret, wfVars, calc>>

\* audio.rs:110-119: lock the buffer and append the block, one sample per
\* frame (multi-channel frames are averaged into one sample)
Callback_Push(t) ==
    /\ thread[t].st = "playing"
    /\ thread[t].cb
    /\ \E frames \in 1 .. MaxBlock :
         samples' = samples \o [i \in 1 .. frames |-> t]
    /\ thread' = [thread EXCEPT ![t].cb = FALSE]
    /\ UNCHANGED <<is_recording, sample_rate, selected_device_id, pc, loc, ret, wfVars, calc>>

(***************************************************************************)
(* audio.rs: stop_recording                                                *)
(***************************************************************************)

\* audio.rs:143: the guard of stop_recording
NotRecordingCheckOff == FALSE
NotRecordingCheck == ~is_recording

\* audio.rs:142-145: entry; rejected while the flag is clear
StopRecording_Enter(p) ==
    /\ pc[p] = "idle"
    /\ IF NotRecordingCheck
       THEN Returned(p, "stop_recording", "NotRecording", NoBytes)
       ELSE /\ pc' = [pc EXCEPT ![p] = "stop_flag"]
            /\ loc' = [loc EXCEPT ![p] = NoLoc]
            /\ UNCHANGED ret
    /\ UNCHANGED <<samples, is_recording, sample_rate, selected_device_id, thread, wfVars, calc>>

\* audio.rs:148: is_recording.store(false): the flag after the store
StopSignalKept(flag) == flag
StopSignal(flag) == FALSE

\* audio.rs:147-148: signal the capture loop to stop
StopRecording_Flag(p) ==
    /\ pc[p] = "stop_flag"
    /\ is_recording' = StopSignal(is_recording)
    /\ pc' = [pc EXCEPT ![p] = "stop_snapshot"]
    /\ UNCHANGED <<samples, sample_rate, selected_device_id, thread, loc, ret, wfVars, calc>>

\* audio.rs:158: the emptiness test on the snapshot
SnapshotIsEmptyOff(snapshot) == FALSE
SnapshotIsEmpty(snapshot) == Len(snapshot) = 0

\* audio.rs:153-156: what taking the snapshot leaves in the shared buffer:
\* samples.clone() copies it
BufferAfterSnapshotTaken(buffer) == <<>>
BufferAfterSnapshot(buffer) == buffer

\* audio.rs:150-160: after the grace sleep (which orders nothing: the capture
\* thread may or may not have run), clone the buffer; empty -> EmptyRecording
StopRecording_Snapshot(p) ==
    /\ pc[p] = "stop_snapshot"
    /\ samples' = BufferAfterSnapshot(samples)
    /\ IF SnapshotIsEmpty(samples)
       THEN Returned(p, "stop_recording", "EmptyRecording", NoBytes)
       ELSE /\ loc' = [loc EXCEPT ![p].snapshot = samples]
            /\ pc' = [pc EXCEPT ![p] = "stop_encode"]
            /\ UNCHANGED ret
    /\ UNCHANGED <<is_recording, sample_rate, selected_device_id, thread, wfVars, calc>>

\* audio.rs:162-176: read the rate, resample when it is not 16000, encode
StopRecording_Encode(p) ==
    /\ pc[p] = "stop_encode"
    /\ \/ Returned(p, "stop_recording", "Ok", EncodedWav(loc[p].snapshot, sample_rate))
       \/ Returned(p, "stop_recording", "EncodingError", NoBytes)
    /\ UNCHANGED <<samples, is_recording, sample_rate, selected_device_id, thread, wfVars, calc>>

\* audio.rs:252: *selected = device_id
StoredDeviceDropped(device_id) == None
StoredDevice(device_id) == device_id

\* audio.rs:249-253: set_input_device; the call returns nothing: what is
\* recorded of it is the device id it was given
SetInputDevice(p) ==
    /\ pc[p] = "idle"
    /\ \E device_id \in DeviceIds \cup {None} :
         /\ selected_device_id' = StoredDevice(device_id)
         /\ Returned(p, "set_input_device", device_id, NoBytes)
    /\ UNCHANGED <<samples, is_recording, sample_rate, thread, wfVars, calc>>

\* audio.rs:256-259: get_selected_device returns a clone of the selection
GetSelectedDevice(p) ==
    /\ pc[p] = "idle"
    /\ Returned(p, "get_selected_device", selected_device_id, NoBytes)
    /\ UNCHANGED <<samples, is_recording, sample_rate, selected_device_id, thread, wfVars, calc>>

\* audio.rs:226-228: is_recording returns the flag
IsRecording(p) ==
    /\ pc[p] = "idle"
    /\ Returned(p, "is_recording", IF is_recording THEN "true" ELSE "false", NoBytes)
    /\ UNCHANGED <<samples, is_recording, sample_rate, selected_device_id, thread, wfVars, calc>>

(***************************************************************************)
(* Texts.  A text is a sequence of symbols; a symbol is a character (with  *)
(* its UTF-8 width) or, for the two words the workflow searches for, the   *)
(* whole word.  "U+597D" is the one-character, three-byte text of that     *)
(* code point.  str::len counts bytes, str::trim strips whitespace.        *)
(***************************************************************************)
EngineAlphabet  == {" ", "a", "U+597D"}
ServiceAlphabet == {" ", "\"", "provide", "transcript"}

\* UTF-8 bytes of a symbol
Width(c) ==
    CASE c = "U+597D" -> 3
      [] c = "provide" -> 7
      [] c = "transcript" -> 10
      [] OTHER -> 1

\* str::len: the length in bytes
RECURSIVE ByteLen(_)
ByteLen(t) == IF t = <<>> THEN 0 ELSE Width(Head(t)) + ByteLen(Tail(t))

\* str::chars().count(): the length in characters
RECURSIVE CharLen(_)
CharLen(t) ==
    IF t = <<>> THEN 0
    ELSE (IF Head(t) \in {"provide", "transcript"} THEN Width(Head(t)) ELSE 1)
         + CharLen(Tail(t))

\* str::trim_matches(c): strip every leading and trailing c
TrimMatches(t, c) ==
    LET keep == {i \in 1 .. Len(t) : t[i] # c}
    IN  IF keep = {} THEN <<>>
        ELSE SubSeq(t, CHOOSE i \in keep : \A j \in keep : i <= j,
                       CHOOSE i \in keep : \A j \in keep : i >= j)

\* str::trim
Trim(t) == TrimMatches(t, " ")

\* str::contains(word), for a word that is a symbol of the alphabet
Contains(t, word) == \E i \in 1 .. Len(t) : t[i] = word

(***************************************************************************)
(* Containers.  A container is its byte length, whether hound can parse    *)
(* it, and its 16-bit samples: the leading ones spelled out (head), the    *)
(* rest zero.                                                              *)
(***************************************************************************)
MinWavBytes == 1000      \* lib.rs:375
MinTextBytes == 2        \* lib.rs:399
CleanupMinBytes == 3     \* lib.rs:411
FullScale == 32768       \* whisper.rs:116: 1 << (16 - 1)

WavSizes   == {0, 44, 999, 1000, 1001}
SampleVals == {0, 327, 328, 0 - 328}

Wavs == {w \in [bytes : WavSizes, valid : BOOLEAN, head : SeqsUpTo(SampleVals, MaxHead)] :
            IF w.valid THEN w.bytes >= 44 + 2 * Len(w.head) ELSE w.head = <<>>}

NoWav == [bytes |-> 0 - 1, valid |-> FALSE, head |-> <<>>]

Abs(x) == IF x < 0 THEN 0 - x ELSE x

\* whisper.rs:102-125 (SampleFormat::Int, 16 bits): each sample s becomes
\* s / 32768; the decoded floats are kept as their numerators over 32768.
WavToSamplesUnchecked(w) ==
    [ok |-> TRUE, head |-> w.head, zeros |-> ((w.bytes - 44) \div 2) - Len(w.head)]
WavToSamples(w) ==
    [ok |-> w.valid, head |-> w.head, zeros |-> ((w.bytes - 44) \div 2) - Len(w.head)]

\* lib.rs:389: samples.iter().map(|s| s.abs()).fold(0.0, f32::max), as a
\* numerator over 32768
RECURSIVE FoldMaxAbs(_, _)
FoldMaxAbs(acc, xs) ==
    IF xs = <<>> THEN acc
    ELSE FoldMaxAbs(IF Abs(Head(xs)) > acc THEN Abs(Head(xs)) ELSE acc, Tail(xs))

MaxAmplitude(decoded) == FoldMaxAbs(0, decoded.head)

\* lib.rs:375: wav_data.len() < 1000
TooSmallLax(bytes) == bytes < 44
TooSmall(bytes) == bytes < MinWavBytes

\* lib.rs:390: max_amplitude < 0.01, with max_amplitude = peak / 32768
IsSilentLax(peak) == peak * 100 < 327
IsSilent(peak) == peak * 100 < FullScale

\* lib.rs:398-399: raw_text.is_empty() || raw_text.len() < 2
IsUnintelligibleLax(raw) == raw = <<>>
IsUnintelligible(raw) == raw = <<>> \/ ByteLen(raw) < MinTextBytes

\* lib.rs:415: cleaned.contains("provide") && cleaned.contains("transcript")
LooksLikeRefusalEither(cleaned) == Contains(cleaned, "provide") \/ Contains(cleaned, "transcript")
LooksLikeRefusal(cleaned) == Contains(cleaned, "provide") /\ Contains(cleaned, "transcript")

(***************************************************************************)
(* ollama.rs: OllamaClient::cleanup_text                                   *)
(***************************************************************************)
Models    == {"gemma2:2b", "phi3:3.8b"}
Languages == {"en", "xx"}
ModeArgs  == {"default", "BULLETS", "bogus"}

\* modes.rs:5-13, 106-116: the variants of TranscriptionMode
AllModes ==
    {"Default", "Email", "Bullets", "Summary", "Slack", "MeetingNotes", "CodeComment"}

\* modes.rs:28-38: TranscriptionMode::as_str
AsStr(m) ==
    CASE m = "Default"      -> "default"
      [] m = "Email"        -> "email"
      [] m = "Bullets"      -> "bullets"
      [] m = "Summary"      -> "summary"
      [] m = "Slack"        -> "slack"
      [] m = "MeetingNotes" -> "meeting_notes"
      [] m = "CodeComment"  -> "code_comment"

\* the strings a mode is asked for by: the identifiers, other spellings of
\* them, the names of the variants, and strings that are no identifier
ModeStrings ==
    {"default", "email", "bullets", "summary", "slack", "meeting_notes", "code_comment",
     "DEFAULT", "EMAIL", "Email", "BULLETS", "Bullets", "SUMMARY", "Slack",
     "Meeting_Notes", "MEETING_NOTES", "CODE_COMMENT", "Code_Comment",
     "MeetingNotes", "CodeComment", "meeting-notes", "meeting notes", "emails",
     "bogus", ""}

\* str::to_lowercase on those strings
ToLowercase(s) ==
    CASE s \in {"DEFAULT"}                        -> "default"
      [] s \in {"EMAIL", "Email"}                 -> "email"
      [] s \in {"BULLETS", "Bullets"}             -> "bullets"
      [] s \in {"SUMMARY"}                        -> "summary"
      [] s \in {"Slack"}                          -> "slack"
      [] s \in {"Meeting_Notes", "MEETING_NOTES"} -> "meeting_notes"
      [] s \in {"CODE_COMMENT", "Code_Comment"}   -> "code_comment"
      [] s = "MeetingNotes"                       -> "meetingnotes"
      [] s = "CodeComment"                        -> "codecomment"
      [] OTHER -> s

\* modes.rs:16-26: TranscriptionMode::from_str (to_lowercase, then match)
MatchMode(l) ==
    CASE l = "email"         -> "Email"
      [] l = "bullets"       -> "Bullets"
      [] l = "summary"       -> "Summary"
      [] l = "slack"         -> "Slack"
      [] l = "meeting_notes" -> "MeetingNotes"
      [] l = "code_comment"  -> "CodeComment"
      [] OTHER -> "Default"
ModeFromStrExact(s) == MatchMode(s)
ModeFromStr(s) == MatchMode(ToLowercase(s))

\* ollama.rs:53-71: what the probe of /api/tags meets: the send fails, the
\* status is not a success, the body of a success cannot be read, or it is
\* read (a body is a sequence of words)
MaxBodyLen == 2     \* words in the body of the model listing
TagsAlphabet == Models \cup {"models", "x"}
ProbeOutcomes ==
    [kind : {"connect_error", "send_error", "bad_status", "body_unreadable"}, body : {<<>>}]
    \cup [kind : {"ok"}, body : SeqsUpTo(TagsAlphabet, MaxBodyLen)]

\* ollama.rs:56-70: OllamaClient::check_availability
CheckAvailabilityRaises(model, outcome) ==
    CASE outcome.kind \in {"connect_error", "send_error"} -> [res |-> "Err", value |-> FALSE]
      [] outcome.kind = "bad_status" -> [res |-> "Ok", value |-> FALSE]
      [] outcome.kind = "body_unreadable" -> [res |-> "Ok", value |-> TRUE]
      [] OTHER -> [res |-> "Ok",
                   value |-> Contains(outcome.body, model) \/ Contains(outcome.body, "models")]
CheckAvailability(model, outcome) ==
    CASE outcome.kind \in {"connect_error", "send_error"} -> [res |-> "Ok", value |-> FALSE]
      [] outcome.kind = "bad_status" -> [res |-> "Ok", value |-> FALSE]
      [] outcome.kind = "body_unreadable" -> [res |-> "Ok", value |-> TRUE]
      [] OTHER -> [res |-> "Ok",
                   value |-> Contains(outcome.body, model) \/ Contains(outcome.body, "models")]

\* ollama.rs:86-100: the language name used in the prompts
LangName(l) ==
    CASE l = None -> "the same language"
      [] l = "en" -> "English"
      [] l = "fr" -> "French"
      [] OTHER -> l

\* ollama.rs:75-81: the fast path: disabled client, or blank text
FastPath(client, text) == ~client.enabled \/ Trim(text) = <<>>

\* ollama.rs:76, 80: what the fast path returns: Ok(text.to_string())
FastPathResultTrimmed(text) == Trim(text)
FastPathResult(text) == text

NoRequest == [model |-> None, mode |-> None, lang |-> None, text |-> <<>>,
              stream |-> FALSE, context |-> <<>>]

\* ollama.rs:83-141: the request: the prompts are determined by the mode, the
\* language name and the text
BuildRequestDefaultModel(client, text, language, mode) ==
    [model |-> "gemma2:2b", mode |-> ModeFromStr(mode), lang |-> LangName(language),
     text |-> text, stream |-> FALSE, context |-> <<>>]
BuildRequest(client, text, language, mode) ==
    [model |-> client.model, mode |-> ModeFromStr(mode), lang |-> LangName(language),
     text |-> text, stream |-> FALSE, context |-> <<>>]

\* what the service (or the network) answers to one request
Answers ==
    [kind : {"connect_error", "send_error", "bad_status", "bad_body"}, response : {<<>>}]
    \cup [kind : {"ok"}, response : SeqsUpTo(ServiceAlphabet, MaxAnswerLen)]

\* t without one enclosing pair of c (what trim_matches would be if it took
\* a single layer off; the code does not do this)
StripOnePair(t, c) ==
    IF Len(t) >= 2 /\ t[1] = c /\ t[Len(t)] = c THEN SubSeq(t, 2, Len(t) - 1) ELSE t

\* ollama.rs:169-174: response.trim().trim_matches('"').trim()
CleanResponseOneLayer(response) == Trim(StripOnePair(Trim(response), "\""))
CleanResponse(response) == Trim(TrimMatches(Trim(response), "\""))

\* ollama.rs:143-176: the result of cleanup_text for an answer
CleanupResultConflated(answer) ==
    IF answer.kind = "ok"
    THEN [res |-> "Ok", text |-> CleanResponse(answer.response)]
    ELSE [res |-> "ServiceUnavailable", text |-> <<>>]
CleanupResult(answer) ==
    CASE answer.kind = "connect_error" -> [res |-> "ServiceUnavailable", text |-> <<>>]
      [] answer.kind = "send_error"    -> [res |-> "SendError", text |-> <<>>]
      [] answer.kind = "bad_status"    -> [res |-> "StatusError", text |-> <<>>]
      [] answer.kind = "bad_body"      -> [res |-> "ParseError", text |-> <<>>]
      [] OTHER -> [res |-> "Ok", text |-> CleanResponse(answer.response)]

CleanupErrors == {"ServiceUnavailable", "SendError", "StatusError", "ParseError"}

(***************************************************************************)
(* lib.rs: the command in progress                                         *)
(***************************************************************************)
NoTranscription == [text |-> <<>>, language |-> None]
NoClient == [model |-> None, enabled |-> FALSE]
NoResult == [res |-> None, raw_text |-> <<>>, cleaned_text |-> <<>>, language |-> None]
NoCleanup == [res |-> None, text |-> <<>>]

NoCall ==
    [op |-> None, pc |-> "idle",
     wav_data |-> NoWav, mode |-> None, text |-> <<>>, language |-> None,
     transcription |-> NoTranscription, client |-> NoClient, request |-> NoRequest,
     cleanup |-> NoCleanup,
     decoded |-> 0, transcribed |-> 0, cleanup_calls |-> 0, requests |-> 0,
     answer |-> None, held |-> {}, ret |-> NoResult]

\* lib.rs:380-395, 404-407, 113-116: a MutexGuard taken inside a block is
\* dropped where the block ends: the guards, of those taken in the block,
\* that the command holds after it
GuardsKept(taken) == taken
GuardsAfterBlock(taken) == {}

\* lib.rs:394, ollama.rs:143-148: a stage is invoked once: the count of
\* its attempts after the call, n before it
AttemptRetried(n) == n + 2
Attempt(n) == n + 1

Failed(err) == [NoResult EXCEPT !.res = err]

\* lib.rs:421: Err(_) => raw_text.to_string()
OnCleanupErrorPropagate(raw, language, err) == Failed(err)
OnCleanupError(raw, language, err) ==
    [res |-> "Ok", raw_text |-> raw, cleaned_text |-> raw, language |-> language]

\* lib.rs:413-420, 427-431: the result for a successful cleanup
OnCleanupOk(raw, language, cleaned) ==
    [res |-> "Ok", raw_text |-> raw,
     cleaned_text |-> IF LooksLikeRefusal(cleaned) THEN raw ELSE cleaned,
     language |-> language]

\* lib.rs:370-377: entry of transcribe_and_cleanup: the size gate.  The
\* command takes the container and nothing else.
TranscribeAndCleanup_Enter ==
    /\ wf = NoCall
    /\ \E w \in Wavs :
         LET call == [NoCall EXCEPT !.op = "transcribe_and_cleanup", !.wav_data = w]
         IN  IF TooSmall(w.bytes)
             THEN wf' = [call EXCEPT !.ret = Failed("NoAudioCaptured")]
             ELSE wf' = [call EXCEPT !.pc = "transcribe"]
    /\ UNCHANGED <<whisper, ollama, recVars, calc>>

\* whisper.rs:45-94: the outcomes of WhisperTranscriber::transcribe on a
\* loaded model: an engine failure, or the trimmed text and the language
Transcriptions ==
    {[ok |-> FALSE, text |-> <<>>, language |-> None]}
    \cup {[ok |-> TRUE, text |-> Trim(t), language |-> l] :
            t \in SeqsUpTo(EngineAlphabet, MaxTextLen), l \in Languages}

\* lib.rs:379-401: under the engine lock: the loaded check, decode, the
\* amplitude gate, transcription; then the text gate
TranscribeAndCleanup_Transcribe ==
    /\ wf.op = "transcribe_and_cleanup"
    /\ wf.pc = "transcribe"
    /\ "whisper" \notin wf.held
    /\ LET decoded == WavToSamples(wf.wav_data)
           done(err, d, t) == [wf EXCEPT !.pc = "idle", !.ret = Failed(err),
                                         !.decoded = d, !.transcribed = t]
       IN  IF ~whisper THEN wf' = done("ModelNotLoaded", 0, 0)
           ELSE IF ~decoded.ok THEN wf' = done("DecodeError", 1, 0)
           ELSE IF IsSilent(MaxAmplitude(decoded)) THEN wf' = done("SilentAudio", 1, 0)
           ELSE \E tr \in Transcriptions :
                  IF ~tr.ok
                  THEN wf' = done("TranscriptionError", 1, Attempt(wf.transcribed))
                  ELSE LET t == [text |-> tr.text, language |-> tr.language]
                       IN  IF IsUnintelligible(Trim(tr.text))
                           THEN wf' = [done("UnintelligibleAudio", 1, Attempt(wf.transcribed))
                                         EXCEPT !.transcription = t]
                           ELSE wf' = [wf EXCEPT !.pc = "config", !.transcription = t,
                                                 !.wav_data = NoWav,
                                                 !.decoded = 1,
                                                 !.transcribed = Attempt(@),
                                                 !.held = GuardsAfterBlock({"whisper"})]
    /\ UNCHANGED <<whisper, ollama, recVars, calc>>

\* ollama.rs:74-155 up to the await of the send: the fast path, or the
\* request is built and sent
CleanupText_Begin(call, client, text, language, mode) ==
    IF FastPath(client, text)
    THEN [call EXCEPT !.cleanup_calls = 1,
                      !.cleanup = [res |-> "Ok", text |-> FastPathResult(text)]]
    ELSE [call EXCEPT !.cleanup_calls = 1, !.requests = Attempt(@),
                      !.request = BuildRequest(client, text, language, mode)]

\* lib.rs:403-412, 423-431: read the client configuration; call cleanup_text
\* when enabled and the raw text is longer than 3 bytes.  The call at
\* lib.rs:412 gives the text and the language; the mode that cleanup_text
\* takes (ollama.rs:74) is not given, and the workflow holds none: it is any
\* mode.
TranscribeAndCleanup_Config ==
    /\ wf.op = "transcribe_and_cleanup"
    /\ wf.pc = "config"
    /\ "ollama" \notin wf.held
    /\ LET raw == Trim(wf.transcription.text)
           language == wf.transcription.language
           call == [wf EXCEPT !.client = ollama,
                              !.held = @ \cup GuardsAfterBlock({"ollama"})]
       IN  IF ollama.enabled /\ ByteLen(raw) > CleanupMinBytes
           THEN \E m \in ModeArgs :
                  LET c == CleanupText_Begin(call, ollama, raw, language, m)
                  IN  IF c.requests = 0
                      THEN wf' = [c EXCEPT !.pc = "idle", !.held = {},
                                           !.ret = OnCleanupOk(raw, language, c.cleanup.text)]
                      ELSE wf' = [c EXCEPT !.pc = "awaiting"]
           ELSE wf' = [call EXCEPT !.pc = "idle", !.held = {},
                                   !.ret = [res |-> "Ok", raw_text |-> raw,
                                            cleaned_text |-> raw, language |-> language]]
    /\ UNCHANGED <<whisper, ollama, recVars, calc>>

\* lib.rs:112-118: the cleanup_text command: clone the client, call it
CleanupTextCommand_Enter ==
    /\ wf = NoCall
    /\ "ollama" \notin wf.held
    /\ \E t \in SeqsUpTo(EngineAlphabet, MaxTextLen), l \in Languages \cup {None},
          m \in ModeArgs :
         LET call == [NoCall EXCEPT !.op = "cleanup_text", !.text = t, !.language = l,
                                    !.mode = m, !.client = ollama,
                                    !.held = GuardsAfterBlock({"ollama"})]
             c == CleanupText_Begin(call, ollama, t, l, m)
         IN  IF c.requests = 0
             THEN wf' = [c EXCEPT !.held = {},
                                  !.ret = [NoResult EXCEPT !.res = c.cleanup.res,
                                                          !.cleaned_text = c.cleanup.text]]
             ELSE wf' = [c EXCEPT !.pc = "awaiting"]
    /\ UNCHANGED <<whisper, ollama, recVars, calc>>

\* ollama.rs:143-176 then lib.rs:117 / lib.rs:412-431: the answer arrives
CleanupText_Answer ==
    /\ wf.pc = "awaiting"
    /\ \E answer \in Answers :
         LET r == CleanupResult(answer)
             raw == Trim(wf.transcription.text)
             language == wf.transcription.language
             \* the request and the arguments moved into it are consumed
             call == [wf EXCEPT !.pc = "idle", !.cleanup = r, !.request = NoRequest,
                                !.text = <<>>, !.language = None, !.mode = None,
                                !.answer = answer.kind, !.held = {}]
         IN  IF wf.op = "cleanup_text"
             THEN wf' = [call EXCEPT !.ret = [NoResult EXCEPT !.res = r.res,
                                                              !.cleaned_text = r.text]]
             ELSE wf' = [call EXCEPT !.ret = IF r.res = "Ok"
                                              THEN OnCleanupOk(raw, language, r.text)
                                              ELSE OnCleanupError(raw, language, r.res)]
    /\ UNCHANGED <<whisper, ollama, recVars, calc>>

\* The result of a finished command has been delivered to the frontend and
\* its locals are gone; the next command can be invoked.
Command_Delivered ==
    /\ wf.pc = "idle"
    /\ wf # NoCall
    /\ wf' = NoCall
    /\ UNCHANGED <<whisper, ollama, recVars, calc>>

\* lib.rs:64-74: load_whisper_model: the transcriber is installed (under
\* the engine lock) only after load_model succeeded
LoadWhisperModel ==
    /\ "whisper" \notin wf.held
    /\ \E ok \in BOOLEAN : whisper' = (whisper \/ ok)
    /\ UNCHANGED <<ollama, wf, recVars, calc>>

\* lib.rs:129-133 with ollama.rs:44-46
SetOllamaEnabled ==
    /\ "ollama" \notin wf.held
    /\ \E b \in BOOLEAN : ollama' = [ollama EXCEPT !.enabled = b]
    /\ UNCHANGED <<whisper, wf, recVars, calc>>

\* lib.rs:141-145 with ollama.rs:40-42
SetOllamaModel ==
    /\ "ollama" \notin wf.held
    /\ \E m \in Models : ollama' = [ollama EXCEPT !.model = m]
    /\ UNCHANGED <<whisper, wf, recVars, calc>>

(***************************************************************************)
(* The pure functions, each applied on its own to inputs drawn at the      *)
(* start: calc is [fn, stage, arg, out].                                   *)
(***************************************************************************)
NoCalc == [fn |-> None, stage |-> 0]

\* ---- audio.rs: samples_to_wav, whisper.rs: wav_to_samples ----
\* A float sample is kept as its numerator over SampleDen = 65536, so that
\* the inputs and the decoded samples (multiples of 1/32768) are exact.
SampleDen == 2 * FullScale
I16_MAX == 32767
I16_MIN == 0 - 32768

MaxPcmLen == 2      \* samples in an encoded sequence

SampleNums ==
    {0, 1, FullScale, FullScale + 1, SampleDen - 1, SampleDen,
     0 - 1, 0 - (SampleDen - 1), 0 - SampleDen,
     2 * SampleDen, 0 - 2 * SampleDen}

\* the f32 k / SampleDen for k > 0 (exact: k has at most 24 bits)
SampleFloat(k) ==
    [bits |-> IntToBits(k, <<>>), lsb |-> 0 - (Len(IntToBits(SampleDen, <<>>)) - 1)]

\* audio.rs:212: (sample * 32767.0).clamp(-32768.0, 32767.0) as i16: the f32
\* product is rounded, clamped, and the cast drops its fraction
QuantizeSampleAbs(k) ==
    IF k = 0 THEN 0
    ELSE FloatTrunc(FloatMulInt(SampleFloat(Abs(k)), I16_MAX, F32Bits))
QuantizeSample(k) ==
    IF k = 0 THEN 0
    ELSE LET m == FloatTrunc(FloatMulInt(SampleFloat(Abs(k)), I16_MAX, F32Bits))
         IN  IF k > 0 THEN (IF m > I16_MAX THEN I16_MAX ELSE m)
             ELSE (IF 0 - m < I16_MIN THEN I16_MIN ELSE 0 - m)

\* audio.rs:197-224: the container samples_to_wav writes
SamplesToWav(float_samples) ==
    [channels |-> 1, sample_rate |-> 16000, bits |-> 16,
     pcm |-> [i \in 1 .. Len(float_samples) |-> QuantizeSample(float_samples[i])]]

\* whisper.rs:115-120: max_val = 1 << (bits - 1); each sample is s / max_val
\* (exact in f32), kept as its numerator over SampleDen
DecodePcm(wav) ==
    LET max_val == 2 ^ (wav.bits - 1)
    IN  [i \in 1 .. Len(wav.pcm) |-> wav.pcm[i] * (SampleDen \div max_val)]

NoPcmWav == [channels |-> 0, sample_rate |-> 0, bits |-> 0, pcm |-> <<>>]

CodecCalls ==
    {[fn |-> "codec", stage |-> 0, float_samples |-> xs, wav |-> NoPcmWav, decoded |-> <<>>] :
        xs \in SeqsUpTo(SampleNums, MaxPcmLen)}

\* audio.rs:197-224: samples_to_wav on the drawn samples
SamplesToWav_Apply ==
    /\ calc.fn = "codec" /\ calc.stage = 0
    /\ calc' = [calc EXCEPT !.stage = 1, !.wav = SamplesToWav(calc.float_samples)]
    /\ UNCHANGED <<recVars, wfVars>>

\* whisper.rs:102-125: wav_to_samples on the container just written
WavToSamples_Apply ==
    /\ calc.fn = "codec" /\ calc.stage = 1
    /\ calc' = [calc EXCEPT !.stage = 2, !.decoded = DecodePcm(calc.wav)]
    /\ UNCHANGED <<recVars, wfVars>>

\* ---- audio.rs: resample (its length) ----
MaxResampleLen == 11    \* samples in a resampled sequence
ResampleRates == {2, 3, 11, 15, 16000, 48000}

ResampleCalls ==
    {[fn |-> "resample", stage |-> 0, n |-> n, from_rate |-> r1, to_rate |-> r2,
      len1 |-> 0, len2 |-> 0] :
        n \in 0 .. MaxResampleLen, r1 \in ResampleRates, r2 \in ResampleRates}

\* audio.rs:178-195: resample(samples, from_rate, to_rate)
Resample_Apply ==
    /\ calc.fn = "resample" /\ calc.stage = 0
    /\ calc' = [calc EXCEPT !.stage = 1,
                            !.len1 = ResampleLen(calc.n, calc.from_rate, calc.to_rate)]
    /\ UNCHANGED <<recVars, wfVars>>

\* audio.rs:178-195: resample(result, to_rate, from_rate): the way back
Resample_Back ==
    /\ calc.fn = "resample" /\ calc.stage = 1
    /\ calc' = [calc EXCEPT !.stage = 2,
                            !.len2 = ResampleLen(calc.len1, calc.to_rate, calc.from_rate)]
    /\ UNCHANGED <<recVars, wfVars>>

\* ---- audio.rs: resample (the source samples its loop reads) ----
MaxIndexLen == 7    \* samples in an input whose reads are followed
IndexRates == {<<16000, 16000>>, <<48000, 16000>>, <<16000, 48000>>,
               <<44100, 16000>>, <<16000, 44100>>, <<3, 7>>, <<7, 3>>}
NoIndex == -1

IndexCalls ==
    {[fn |-> "resample_loop", stage |-> 0, n |-> n, from_rate |-> r[1], to_rate |-> r[2],
      i |-> 0, floor |-> NoIndex, ceil |-> NoIndex, panicked |-> FALSE] :
        n \in 0 .. MaxIndexLen, r \in IndexRates}

\* audio.rs:183-192: one turn of the loop over 0..new_len: the two source
\* samples are read at src_idx_floor and src_idx_ceil (an index outside the
\* slice panics)
Resample_Iterate ==
    /\ calc.fn = "resample_loop" /\ ~calc.panicked
    /\ calc.i < ResampleLen(calc.n, calc.from_rate, calc.to_rate)
    /\ LET floor == SrcIdxFloor(calc.i, calc.from_rate, calc.to_rate)
           ceil  == SrcIdxCeil(floor, calc.n)
       IN  calc' = [calc EXCEPT !.floor = floor, !.ceil = ceil,
                                !.panicked = floor > calc.n - 1 \/ ceil > calc.n - 1,
                                !.i = IF floor > calc.n - 1 \/ ceil > calc.n - 1
                                      THEN calc.i ELSE calc.i + 1]
    /\ UNCHANGED <<recVars, wfVars>>

\* ---- audio.rs: the end of stop_recording, from the snapshot on ----
MaxSnapshotLen == 19    \* samples in a snapshot that is encoded
DeviceRates == {1216, 16000, 44100, 48000}

EncodeCalls ==
    {[fn |-> "stop_encode", stage |-> 0, snapshot |-> [i \in 1 .. n |-> 1],
      sample_rate |-> r, wav |-> NoBytes] :
        n \in 1 .. MaxSnapshotLen, r \in DeviceRates}

\* audio.rs:162-176: the recorded rate is read, the snapshot resampled when
\* the rate is not 16000, and the result encoded
StopRecording_EncodeApply ==
    /\ calc.fn = "stop_encode" /\ calc.stage = 0
    /\ calc' = [calc EXCEPT !.stage = 1,
                            !.wav = EncodedWav(calc.snapshot, calc.sample_rate)]
    /\ UNCHANGED <<recVars, wfVars>>

\* ---- ollama.rs: the cleaning of a successful response ----
MaxResponseLen == 5     \* symbols in a response that is cleaned
ResponseAlphabet == {" ", "\"", "a"}

CleanCalls ==
    {[fn |-> "clean_response", stage |-> 0, response |-> r, cleaned |-> <<>>] :
        r \in SeqsUpTo(ResponseAlphabet, MaxResponseLen)}

\* ollama.rs:169-176: the text cleanup_text returns for a parsed response
CleanResponse_Apply ==
    /\ calc.fn = "clean_response" /\ calc.stage = 0
    /\ calc' = [calc EXCEPT !.stage = 1, !.cleaned = CleanResponse(calc.response)]
    /\ UNCHANGED <<recVars, wfVars>>

\* ---- ollama.rs: the availability probe ----
ProbeCalls ==
    {[fn |-> "check_availability", stage |-> 0, model |-> m, outcome |-> o,
      result |-> [res |-> None, value |-> FALSE]] : m \in Models, o \in ProbeOutcomes}

\* lib.rs:120-127 with ollama.rs:53-71: check_ollama_available
CheckAvailability_Apply ==
    /\ calc.fn = "check_availability" /\ calc.stage = 0
    /\ calc' = [calc EXCEPT !.stage = 1,
                            !.result = CheckAvailability(calc.model, calc.outcome)]
    /\ UNCHANGED <<recVars, wfVars>>

\* ---- modes.rs: the mode catalog ----
FromStrCalls ==
    {[fn |-> "from_str", stage |-> 0, s |-> s, mode |-> None] : s \in ModeStrings}

AsStrCalls ==
    {[fn |-> "as_str", stage |-> 0, m |-> m, m2 |-> m2, id |-> None, id2 |-> None,
      back |-> None] : m \in AllModes, m2 \in AllModes}

\* modes.rs:16-26: from_str of a string
ModeFromStr_Apply ==
    /\ calc.fn = "from_str" /\ calc.stage = 0
    /\ calc' = [calc EXCEPT !.stage = 1, !.mode = ModeFromStr(calc.s)]
    /\ UNCHANGED <<recVars, wfVars>>

\* modes.rs:28-38: as_str of two variants
AsStr_Apply ==
    /\ calc.fn = "as_str" /\ calc.stage = 0
    /\ calc' = [calc EXCEPT !.stage = 1, !.id = AsStr(calc.m), !.id2 = AsStr(calc.m2)]
    /\ UNCHANGED <<recVars, wfVars>>

\* modes.rs:16-26: from_str of the identifier as_str gave
AsStr_Back ==
    /\ calc.fn = "as_str" /\ calc.stage = 1
    /\ calc' = [calc EXCEPT !.stage = 2, !.back = ModeFromStr(calc.id)]
    /\ UNCHANGED <<recVars, wfVars>>

PureCalls ==
    CodecCalls \cup ResampleCalls \cup IndexCalls \cup EncodeCalls \cup CleanCalls \cup ProbeCalls
    \cup FromStrCalls \cup AsStrCalls

(***************************************************************************)
(* The initial state: RecordingState::new (audio.rs:23-30) and the         *)
(* AppState built in run() (lib.rs:468-473).                               *)
(***************************************************************************)
InitState ==
    /\ samples = <<>>
    /\ is_recording = FALSE
    /\ sample_rate = 16000
    /\ selected_device_id = None
    /\ thread = [t \in ThreadIds |-> [st |-> "unborn", channels |-> 1, cb |-> FALSE]]
    /\ pc = [p \in Callers |-> "idle"]
    /\ loc = [p \in Callers |-> NoLoc]
    /\ ret = [p \in Callers |-> NoRet]
    /\ whisper = FALSE
    /\ ollama = [model |-> "gemma2:2b", enabled |-> TRUE]
    /\ wf = NoCall

Init == InitState /\ calc = NoCalc

\* the pure functions: the application state as constructed, the inputs of
\* one call drawn
InitPure == InitState /\ calc \in PureCalls

Next ==
    \/ \E p \in Callers : StartRecording_Enter(p)
    \/ \E p \in Callers : StartRecording_Clear(p)
    \/ \E p \in Callers : StartRecording_Device(p)
    \/ \E p \in Callers : StartRecording_Rate(p)
    \/ \E p \in Callers : StartRecording_Flag(p)
    \/ \E p \in Callers : StartRecording_Spawn(p)
    \/ \E p \in Callers : StopRecording_Enter(p)
    \/ \E p \in Callers : StopRecording_Flag(p)
    \/ \E p \in Callers : StopRecording_Snapshot(p)
    \/ \E p \in Callers : StopRecording_Encode(p)
    \/ \E p \in Callers : SetInputDevice(p)
    \/ \E p \in Callers : GetSelectedDevice(p)
    \/ \E p \in Callers : IsRecording(p)
    \/ \E t \in ThreadIds : Capture_Build(t)
    \/ \E t \in ThreadIds : Capture_Play(t)
    \/ \E t \in ThreadIds : Capture_Poll(t)
    \/ \E t \in ThreadIds : Callback_Check(t)
    \/ \E t \in ThreadIds : Callback_Push(t)

Spec == Init /\ [][Next]_vars

NextWorkflow ==
    \/ TranscribeAndCleanup_Enter
    \/ TranscribeAndCleanup_Transcribe
    \/ TranscribeAndCleanup_Config
    \/ CleanupTextCommand_Enter
    \/ CleanupText_Answer
    \/ Command_Delivered
    \/ LoadWhisperModel
    \/ SetOllamaEnabled
    \/ SetOllamaModel

SpecWorkflow == Init /\ [][NextWorkflow]_vars

\* audio.rs:101-136: the capture thread is an operating-system thread: it
\* gets to run its next step, and a poll that would find the flag false is
\* taken if it is possible again and again
CaptureFairness ==
    \A t \in ThreadIds :
       /\ WF_vars(Capture_Build(t))
       /\ WF_vars(Capture_Play(t))
       /\ WF_vars(Callback_Push(t))
       /\ SF_vars(Capture_Poll(t))

\* audio.rs:41-139, 142-160: a start_recording call that has been entered
\* runs to its return, a stop_recording call to its snapshot (their only
\* waits are the 100 ms sleep and the buffer mutex)
CallStep(p) ==
    \/ StartRecording_Clear(p) \/ StartRecording_Device(p) \/ StartRecording_Rate(p)
    \/ StartRecording_Flag(p) \/ StartRecording_Spawn(p)
    \/ StopRecording_Flag(p) \/ StopRecording_Snapshot(p)

CallFairness == WF_vars(CallStep(1))

SpecFair == Init /\ [][Next]_vars /\ CaptureFairness /\ CallFairness

\* audio.rs:15-20, 41: RecordingState is shared by reference (its fields are
\* Arc, Mutex and AtomicBool), so start_recording can be entered by a second
\* thread while a first call is inside it
ConcurrentCallers == {1, 2}

InitConcurrent ==
    /\ samples = <<>>
    /\ is_recording = FALSE
    /\ sample_rate = 16000
    /\ selected_device_id = None
    /\ thread = [t \in ThreadIds |-> [st |-> "unborn", channels |-> 1, cb |-> FALSE]]
    /\ pc = [p \in ConcurrentCallers |-> "idle"]
    /\ loc = [p \in ConcurrentCallers |-> NoLoc]
    /\ ret = [p \in ConcurrentCallers |-> NoRet]
    /\ whisper = FALSE
    /\ ollama = [model |-> "gemma2:2b", enabled |-> TRUE]
    /\ wf = NoCall
    /\ calc = NoCalc

\* two threads calling start_recording, the capture threads beside them
NextConcurrent ==
    \/ \E p \in ConcurrentCallers : StartRecording_Enter(p)
    \/ \E p \in ConcurrentCallers : StartRecording_Clear(p)
    \/ \E p \in ConcurrentCallers : StartRecording_Device(p)
    \/ \E p \in ConcurrentCallers : StartRecording_Rate(p)
    \/ \E p \in ConcurrentCallers : StartRecording_Flag(p)
    \/ \E p \in ConcurrentCallers : StartRecording_Spawn(p)
    \/ \E t \in ThreadIds : Capture_Build(t)
    \/ \E t \in ThreadIds : Capture_Play(t)
    \/ \E t \in ThreadIds : Capture_Poll(t)
    \/ \E t \in ThreadIds : Callback_Check(t)
    \/ \E t \in ThreadIds : Callback_Push(t)

SpecConcurrent == InitConcurrent /\ [][NextConcurrent]_vars

\* lib.rs:22-27, 369-432 beside audio.rs: the workflow and the recording
\* commands work on one AppState.  One recording session, and a workflow on
\* one container that the engine transcribes to one text.
WorkflowWav  == [bytes |-> 1001, valid |-> TRUE, head |-> <<328>>]
WorkflowText == [text |-> <<"a", "U+597D">>, language |-> "en"]

\* lib.rs:370-377: transcribe_and_cleanup is invoked with that container
Workflow_Enter == TranscribeAndCleanup_Enter /\ wf'.wav_data = WorkflowWav

\* lib.rs:379-401: the engine, loaded, returns that text
Workflow_Transcribe == TranscribeAndCleanup_Transcribe /\ wf'.transcription = WorkflowText

\* audio.rs:41-44: start_recording, for the one session
Session_Start(p) == StartRecording_Enter(p) /\ Spawned = {}

NextBeside ==
    \/ Workflow_Enter
    \/ Workflow_Transcribe
    \/ TranscribeAndCleanup_Config
    \/ CleanupText_Answer
    \/ Command_Delivered
    \/ LoadWhisperModel
    \/ SetOllamaEnabled
    \/ SetOllamaModel
    \/ \E p \in Callers : Session_Start(p)
    \/ \E p \in Callers : StartRecording_Clear(p)
    \/ \E p \in Callers : StartRecording_Device(p)
    \/ \E p \in Callers : StartRecording_Rate(p)
    \/ \E p \in Callers : StartRecording_Flag(p)
    \/ \E p \in Callers : StartRecording_Spawn(p)
    \/ \E p \in Callers : StopRecording_Enter(p)
    \/ \E p \in Callers : StopRecording_Flag(p)
    \/ \E p \in Callers : StopRecording_Snapshot(p)
    \/ \E p \in Callers : StopRecording_Encode(p)
    \/ \E t \in ThreadIds : Capture_Build(t)
    \/ \E t \in ThreadIds : Capture_Play(t)
    \/ \E t \in ThreadIds : Capture_Poll(t)
    \/ \E t \in ThreadIds : Callback_Check(t)
    \/ \E t \in ThreadIds : Callback_Push(t)

SpecBeside == Init /\ [][NextBeside]_vars

NextPure ==
    \/ SamplesToWav_Apply
    \/ WavToSamples_Apply
    \/ Resample_Apply
    \/ Resample_Back
    \/ Resample_Iterate
    \/ StopRecording_EncodeApply
    \/ CleanResponse_Apply
    \/ CheckAvailability_Apply
    \/ ModeFromStr_Apply
    \/ AsStr_Apply
    \/ AsStr_Back

SpecPure == InitPure /\ [][NextPure]_vars

(***************************************************************************)
(* Properties of the recording session (checked under Spec)                *)
(***************************************************************************)
StartPcs == {"start_clear", "start_device", "start_rate", "start_flag", "start_spawn"}
StopPcs  == {"stop_flag", "stop_snapshot", "stop_encode"}

SessionUnchanged ==
    UNCHANGED <<samples, sample_rate, selected_device_id, is_recording, thread>>

\* C1: start_recording called while the session is Recording does not get
\* past its guard: it returns AlreadyRecording, and the step leaves the sample
\* buffer, the sample rate, the selected device, the Recording flag and the
\* set of capture threads unchanged.
C1_StartWhileRecordingRejected ==
    [][\A p \in Callers :
         (pc[p] = "idle" /\ is_recording) =>
            /\ pc'[p] \notin StartPcs
            /\ (ret'[p] # ret[p] /\ ret'[p].op = "start_recording") =>
                  /\ ret'[p].res = "AlreadyRecording"
                  /\ ret'[p].bytes = NoBytes
                  /\ SessionUnchanged]_vars

C1_Witness ==
    \E p \in Callers :
       /\ ret[p].op = "start_recording" /\ ret[p].res = "AlreadyRecording"
       /\ is_recording /\ samples # <<>> /\ Alive # {}

\* C2: stop_recording called while the session is Idle does not get past its
\* guard: it returns NotRecording with no bytes, and the step leaves the
\* sample buffer, the sample rate, the selected device, the Idle flag and the
\* capture threads unchanged.
C2_StopWhileIdleRejected ==
    [][\A p \in Callers :
         (pc[p] = "idle" /\ ~is_recording) =>
            /\ pc'[p] \notin StopPcs
            /\ (ret'[p] # ret[p] /\ ret'[p].op = "stop_recording") =>
                  /\ ret'[p].res = "NotRecording"
                  /\ ret'[p].bytes = NoBytes
                  /\ SessionUnchanged]_vars

C2_Witness ==
    \E p \in Callers :
       /\ ret[p].op = "stop_recording" /\ ret[p].res = "NotRecording"
       /\ ~is_recording /\ samples # <<>> /\ selected_device_id # None

\* C3: in every reachable state at most one capture loop owns a device
\* stream.  (Violated: the flag is the only signal, so a capture thread that
\* has not observed the false flag before the next start_recording sets it
\* again stays alive beside the new one.)
C3_AtMostOneCaptureLoop == Cardinality(Alive) <= 1

\* C10: stop_recording whose snapshot is empty returns EmptyRecording and no
\* bytes, and only a call holding a snapshot of at least one sample returns
\* bytes.
C10_EmptySnapshotRejected ==
    [][\A p \in Callers :
         /\ (pc[p] = "stop_snapshot" /\ pc'[p] # "stop_snapshot" /\ samples = <<>>) =>
               /\ pc'[p] = "idle"
               /\ ret'[p] = [op |-> "stop_recording", res |-> "EmptyRecording",
                             bytes |-> NoBytes]
         /\ (ret'[p] # ret[p] /\ ret'[p].bytes # NoBytes) =>
               /\ pc[p] = "stop_encode"
               /\ ret'[p].op = "stop_recording"
               /\ Len(loc[p].snapshot) >= 1]_vars

C10_Witness ==
    \E p \in Callers :
       /\ ret[p].op = "stop_recording" /\ ret[p].res = "EmptyRecording"
       /\ samples = <<>> /\ \E t \in ThreadIds : thread[t].st = "playing"

IsPrefix(s, t) == Len(s) <= Len(t) /\ SubSeq(t, 1, Len(s)) = s

\* the step is the buffer clear of a start_recording call (audio.rs:46-50)
ClearStep ==
    \E p \in Callers : pc[p] = "start_clear" /\ pc'[p] = "start_device" /\ samples' = <<>>

\* the step is the append of a capture callback (audio.rs:110-119)
AppendStep ==
    \E t \in ThreadIds : thread[t].cb /\ ~thread'[t].cb /\ thread'[t].st = "playing"

\* C11: the buffer is cleared only by start_recording, which clears it while
\* the session is Idle and exactly once in a call that starts a recording;
\* every other step (stop_recording, is_recording, set_input_device,
\* get_selected_device, the capture callback) keeps what the buffer holds, and
\* a step that changes it appends at its end.
C11_ClearedOncePerRecording ==
    [][/\ ClearStep => ~is_recording
       /\ ~ClearStep => IsPrefix(samples, samples')
       /\ (samples' # samples /\ ~ClearStep) => AppendStep
       /\ \A p \in Callers :
            (pc[p] = "start_spawn" /\ pc'[p] = "idle") =>
               (ret'[p].res = "Ok" /\ loc[p].clears = 1)]_vars

C11_Witness ==
    \E p \in Callers :
       /\ pc[p] = "start_device" /\ loc[p].clears = 1 /\ samples = <<>>
       /\ ret[p].op = "stop_recording" /\ ret[p].res = "Ok"
       /\ ret[p].bytes.frames >= 1

\* C19: the selected device id changes only in a set_input_device step, which
\* stores the id it was given; start_recording, stop_recording, is_recording
\* and the capture threads leave it alone, and get_selected_device returns
\* the stored id.
C19_DeviceChangesOnlyBySet ==
    [][\A p \in Callers :
         /\ (selected_device_id' # selected_device_id) =>
               (pc[p] = "idle" /\ ret'[p].op = "set_input_device")
         /\ (pc[p] = "idle" /\ pc'[p] = "idle" /\ ret'[p].op = "set_input_device") =>
               selected_device_id' = ret'[p].res
         /\ (pc[p] = "idle" /\ pc'[p] = "idle" /\ ret'[p].op = "get_selected_device") =>
               (ret'[p].res = selected_device_id /\ selected_device_id' = selected_device_id)]_vars

\* a device was selected, a recording was started and stopped with it, and
\* get_selected_device still returns it
C19_Witness ==
    \E p \in Callers :
       /\ ret[p].op = "get_selected_device" /\ ret[p].res = "micA"
       /\ selected_device_id = "micA"
       /\ samples # <<>> /\ ~is_recording
       /\ \E t \in ThreadIds : thread[t].st = "exited"

\* the capture thread of the recording in progress or just stopped: the one
\* spawned last
Latest(t) == t \in Spawned /\ \A u \in Spawned : u <= t

\* C22: the buffer is written only by the capture callback (start_recording
\* apart, which clears it); stop_recording snapshots it only once the flag is
\* false; no sample is appended after the snapshot and before the next
\* start_recording; the snapshot holds only samples of the capture thread of
\* the recording being stopped.  (Violated: a callback that read the flag at
\* line 106 before the stop appends at lines 110-119 whenever it runs next,
\* also after the snapshot.)
C22_NoAppendAfterSnapshot ==
    [][/\ (samples' # samples /\ ~ClearStep) => AppendStep
       /\ \A p \in Callers :
            /\ pc[p] = "stop_snapshot" => ~is_recording
            /\ (pc[p] = "stop_snapshot" /\ pc'[p] = "stop_encode") =>
                  \A i \in 1 .. Len(loc'[p].snapshot) : Latest(loc'[p].snapshot[i])
       /\ (~is_recording /\ \A p \in Callers : pc[p] \notin StartPcs \cup {"stop_snapshot"})
             => samples' = samples]_vars

\* a stop_recording call has raised the stop flag
StopRaised == ~is_recording /\ \E p \in Callers : pc[p] = "stop_snapshot"

\* C23: after stop_recording raised the stop flag, the capture loop of the
\* recording being stopped eventually leaves its loop and releases the
\* stream, whatever the controller does afterwards.  (Violated: a
\* start_recording that sets the flag again before the loop polled it leaves
\* the loop polling a true flag for ever.)
C23_StoppedLoopExits ==
    \A t \in ThreadIds :
       (StopRaised /\ Latest(t)) ~> (thread[t].st \in {"exited", "panicked"})

\* C21: of two start_recording calls running concurrently on an idle
\* session at most one returns success (the other returns AlreadyRecording)
\* and one capture loop is spawned.  (Violated: the guard at line 42 and the
\* store at line 98 are two steps, and both calls can pass the guard before
\* either stores the flag; both then clear the buffer, spawn and return Ok.)
C21_ExactlyOneStarts ==
    /\ Cardinality({p \in DOMAIN ret :
                      ret[p].op = "start_recording" /\ ret[p].res = "Ok"}) <= 1
    /\ Cardinality(Spawned) <= 1

(***************************************************************************)
(* Properties of the workflow (checked under SpecWorkflow)                 *)
(***************************************************************************)
InWorkflow == wf.op = "transcribe_and_cleanup"
NoCleanupInvoked == wf.cleanup_calls = 0 /\ wf.requests = 0

\* C4: whenever the cleanup call of a workflow returned an error, the workflow
\* returns a successful result whose cleanedText is its rawText.
C4_CleanupErrorFallsBack ==
    (InWorkflow /\ wf.pc = "idle" /\ wf.cleanup.res \in CleanupErrors) =>
        /\ wf.ret.res = "Ok"
        /\ wf.ret.raw_text = Trim(wf.transcription.text)
        /\ wf.ret.cleaned_text = wf.ret.raw_text
        /\ wf.ret.language = wf.transcription.language

C4_Witness ==
    /\ InWorkflow /\ wf.pc = "idle" /\ wf.requests = 1
    /\ wf.cleanup.res = "ServiceUnavailable"
    /\ wf.ret.res = "Ok" /\ wf.ret.cleaned_text = wf.ret.raw_text /\ wf.ret.raw_text # <<>>

\* C5: when the cleanup call succeeded, cleanedText is rawText if the cleanup
\* result contains both "provide" and "transcript", and is exactly the cleanup
\* result otherwise.
C5_RefusalDiscarded ==
    (InWorkflow /\ wf.pc = "idle" /\ wf.requests = 1 /\ wf.cleanup.res = "Ok") =>
        /\ wf.ret.res = "Ok"
        /\ wf.ret.raw_text = Trim(wf.transcription.text)
        /\ (\E i, j \in 1 .. Len(wf.cleanup.text) :
               wf.cleanup.text[i] = "provide" /\ wf.cleanup.text[j] = "transcript")
              => wf.ret.cleaned_text = wf.ret.raw_text
        /\ (~(\E i \in 1 .. Len(wf.cleanup.text) : wf.cleanup.text[i] = "provide")
            \/ ~(\E j \in 1 .. Len(wf.cleanup.text) : wf.cleanup.text[j] = "transcript"))
              => wf.ret.cleaned_text = wf.cleanup.text

C5_Witness ==
    /\ InWorkflow /\ wf.pc = "idle" /\ wf.cleanup.res = "Ok"
    /\ wf.cleanup.text = <<"transcript", "provide">>
    /\ wf.ret.res = "Ok" /\ wf.ret.cleaned_text = wf.ret.raw_text

\* C6: a container shorter than 1000 bytes is rejected with NoAudioCaptured at
\* entry: it is never decoded, transcribed or cleaned up.
C6_SmallContainerRejected ==
    (InWorkflow /\ wf.wav_data # NoWav /\ wf.wav_data.bytes < 1000) =>
        /\ wf.pc = "idle"
        /\ wf.ret.res = "NoAudioCaptured"
        /\ wf.decoded = 0 /\ wf.transcribed = 0
        /\ NoCleanupInvoked

C6_Witness ==
    /\ InWorkflow /\ wf.wav_data.bytes = 999 /\ wf.wav_data.valid
    /\ wf.ret.res = "NoAudioCaptured" /\ whisper /\ wf.decoded = 0

\* the container is large enough, decodes, and every sample is below the
\* silence threshold: |s| / 32768 < 0.01
SilentContainer(w) ==
    /\ w.valid
    /\ w.bytes >= 1000
    /\ \A i \in 1 .. Len(w.head) : w.head[i] * 100 < 32768 /\ w.head[i] * 100 > 0 - 32768

LeavesTranscribeBlockSilent ==
    /\ InWorkflow /\ wf.pc = "transcribe" /\ wf'.pc # "transcribe"
    /\ SilentContainer(wf.wav_data)

\* C7 (amended): for a container of at least the minimum size that decodes to
\* samples whose peak is below the silence threshold, the workflow returns
\* SilentAudio when a transcriber is installed and the model-not-loaded error
\* when none is; in both cases neither transcription nor cleanup is invoked.
C7_SilentRejected ==
    [][LeavesTranscribeBlockSilent =>
         /\ wf'.pc = "idle"
         /\ wf'.ret.res = (IF whisper THEN "SilentAudio" ELSE "ModelNotLoaded")
         /\ wf'.transcribed = 0
         /\ wf'.cleanup_calls = 0 /\ wf'.requests = 0]_vars

\* C7 as claimed: every such container yields SilentAudio.
C7_Original ==
    [][LeavesTranscribeBlockSilent =>
         /\ wf'.pc = "idle"
         /\ wf'.ret.res = "SilentAudio"
         /\ wf'.transcribed = 0
         /\ wf'.cleanup_calls = 0 /\ wf'.requests = 0]_vars

C7_Witness ==
    /\ InWorkflow /\ wf.pc = "idle" /\ wf.ret.res = "SilentAudio"
    /\ wf.wav_data.bytes >= 1000 /\ wf.wav_data.head = <<0, 327>>
    /\ wf.decoded = 1 /\ wf.transcribed = 0

SucceededTranscription == InWorkflow /\ wf.transcription # NoTranscription

RejectedUnintelligible ==
    /\ wf.pc = "idle"
    /\ wf.ret.res = "UnintelligibleAudio"
    /\ NoCleanupInvoked

\* C8 (amended): when transcription succeeds but its trimmed text is empty or
\* shorter than 2 bytes (UTF-8), the workflow returns UnintelligibleAudio and
\* cleanup is never invoked.
C8_ShortTextRejected ==
    (SucceededTranscription /\ ByteLen(Trim(wf.transcription.text)) < 2)
        => RejectedUnintelligible

\* C8 as claimed: ... shorter than 2 characters ...
C8_Original ==
    (SucceededTranscription /\ CharLen(Trim(wf.transcription.text)) < 2)
        => RejectedUnintelligible

C8_Witness ==
    /\ SucceededTranscription /\ wf.transcription.text = <<"a">>
    /\ RejectedUnintelligible /\ wf.transcribed = 1

\* C9: cleanup_text with a disabled client, or with an empty or
\* whitespace-only text, returns Ok with exactly the text it was given and no
\* request is sent, whatever the language and the mode.  (The arguments of a
\* call are in the state until its answer has been processed.)
C9_FastPathUnchanged ==
    (/\ wf.op = "cleanup_text" /\ wf.mode # None
     /\ (~wf.client.enabled \/ \A i \in 1 .. Len(wf.text) : wf.text[i] = " ")) =>
        /\ wf.pc = "idle"
        /\ wf.requests = 0
        /\ wf.request = NoRequest
        /\ wf.ret.res = "Ok"
        /\ wf.ret.cleaned_text = wf.text

C9_Witness ==
    /\ wf.op = "cleanup_text" /\ wf.pc = "idle" /\ wf.requests = 0
    /\ ~wf.client.enabled /\ wf.text = <<" ", "a", " ">> /\ wf.mode = "BULLETS"
    /\ wf.language = "xx"
    /\ wf.ret.res = "Ok" /\ wf.ret.cleaned_text = <<" ", "a", " ">>

\* the steps of a workflow call at which gates are evaluated: its entry, and
\* the block under the engine lock together with the text gate
EntersWorkflow == wf = NoCall /\ wf'.op = "transcribe_and_cleanup"
LeavesTranscribeBlock == InWorkflow /\ wf.pc = "transcribe" /\ wf'.pc # "transcribe"

\* every sample of the container is below the silence threshold
Quiet(w) == \A i \in 1 .. Len(w.head) : Abs(w.head[i]) * 100 < 32768

\* the transcription ran; its failure or the text gate decides, else the
\* call goes on
TranscriptionDecides ==
    /\ wf'.transcribed = 1
    /\ \/ wf'.pc = "idle" /\ wf'.ret.res = "TranscriptionError"
       \/ /\ wf'.pc = "idle" /\ wf'.ret.res = "UnintelligibleAudio"
          /\ ByteLen(Trim(wf'.transcription.text)) < 2
       \/ wf'.pc = "config" /\ ByteLen(Trim(wf'.transcription.text)) >= 2

Rejected(err) == wf'.pc = "idle" /\ wf'.ret.res = err /\ wf'.transcribed = 0

\* C24 (amended): the gates are evaluated in the order size check, the
\* engine's model-not-loaded check, decode, amplitude check, transcription,
\* text-length check, and the first failing gate determines the error:
\* NoAudioCaptured comes before everything, the model-not-loaded error before
\* DecodeError and SilentAudio, and these before a failure of the
\* transcription itself.
C24_GateOrder ==
    [][/\ EntersWorkflow =>
            IF wf'.wav_data.bytes < 1000
            THEN Rejected("NoAudioCaptured") /\ wf'.decoded = 0
            ELSE wf'.pc = "transcribe"
       /\ LeavesTranscribeBlock =>
            IF ~whisper THEN Rejected("ModelNotLoaded") /\ wf'.decoded = 0
            ELSE IF ~wf.wav_data.valid THEN Rejected("DecodeError")
            ELSE IF Quiet(wf.wav_data) THEN Rejected("SilentAudio")
            ELSE TranscriptionDecides]_vars

\* C24 as claimed: size check, decode, amplitude check, then transcription
\* with its model-not-loaded check: DecodeError and SilentAudio come before
\* any failure of the transcription stage.
C24_Original ==
    [][/\ EntersWorkflow =>
            IF wf'.wav_data.bytes < 1000
            THEN Rejected("NoAudioCaptured") /\ wf'.decoded = 0
            ELSE wf'.pc = "transcribe"
       /\ LeavesTranscribeBlock =>
            IF ~wf.wav_data.valid THEN Rejected("DecodeError")
            ELSE IF Quiet(wf.wav_data) THEN Rejected("SilentAudio")
            ELSE IF ~whisper THEN Rejected("ModelNotLoaded")
            ELSE TranscriptionDecides]_vars

\* no transcriber is installed and the container does not decode: the
\* model-not-loaded error is the one returned
C24_Witness ==
    /\ InWorkflow /\ wf.pc = "idle" /\ wf.ret.res = "ModelNotLoaded"
    /\ wf.wav_data.bytes >= 1000 /\ ~wf.wav_data.valid
    /\ wf.decoded = 0 /\ ~whisper

\* the workflow has passed the text gate and read the client configuration
PastConfig == InWorkflow /\ wf.pc \in {"awaiting", "idle"} /\ wf.client # NoClient

\* C25: the workflow invokes cleanup if and only if cleanup is enabled in the
\* configuration read at that point and the trimmed raw text is longer than
\* 3 characters; when invoked, it passes the transcription's language and
\* the selected mode; when not invoked, cleanedText equals rawText.
\* (Violated: the length compared is in bytes, and the workflow holds no
\* selected mode and passes none.)
C25_CleanupIffEnabledAndLong ==
    PastConfig =>
       /\ (wf.cleanup_calls = 1) <=>
             (wf.client.enabled /\ CharLen(Trim(wf.transcription.text)) > 3)
       /\ wf.pc = "awaiting" =>
             /\ wf.request.lang = LangName(wf.transcription.language)
             /\ wf.mode # None
             /\ wf.request.mode = ModeFromStr(wf.mode)
       /\ (wf.cleanup_calls = 0 /\ wf.pc = "idle") =>
             (wf.ret.res = "Ok" /\ wf.ret.cleaned_text = wf.ret.raw_text)

Answered == wf.pc = "idle" /\ wf.answer # None

\* C16: cleanup_text reports three distinguishable errors: a connection
\* failure is ServiceUnavailable, a non-success status is a status error, an
\* unparseable body of a success response is a parse error; no failure is
\* reported as one of another class, and none as a success.
C16_ErrorClassesDistinct ==
    Answered =>
       /\ (wf.answer = "connect_error") <=> (wf.cleanup.res = "ServiceUnavailable")
       /\ (wf.answer = "bad_status") <=> (wf.cleanup.res = "StatusError")
       /\ (wf.answer = "bad_body") <=> (wf.cleanup.res = "ParseError")
       /\ (wf.answer = "ok") <=> (wf.cleanup.res = "Ok")
       /\ wf.op = "cleanup_text" => wf.ret.res = wf.cleanup.res

C16_Witness ==
    /\ Answered /\ wf.op = "cleanup_text"
    /\ wf.answer = "bad_body" /\ wf.ret.res = "ParseError"

\* C20: within one transcribe_and_cleanup call transcription is invoked at
\* most once and the cleanup request is sent at most once, whatever the
\* outcome of a stage, and the request is sent only after transcription has
\* completed successfully.
C20_SingleAttempt ==
    wf.op = "transcribe_and_cleanup" =>
       /\ wf.transcribed <= 1
       /\ wf.requests <= 1
       /\ wf.requests >= 1 =>
             /\ wf.transcribed = 1
             /\ wf.pc \in {"awaiting", "idle"}
             /\ wf.transcription # NoTranscription
             /\ ~IsUnintelligible(Trim(wf.transcription.text))

C20_Witness ==
    /\ wf.op = "transcribe_and_cleanup" /\ wf.pc = "idle"
    /\ wf.transcribed = 1 /\ wf.requests = 1
    /\ wf.answer = "bad_status" /\ wf.ret.res = "Ok"

(***************************************************************************)
(* Properties of the pure functions (checked under SpecPure)               *)
(***************************************************************************)
CodecDone == calc.fn = "codec" /\ calc.stage = 2

\* every sample in [-1, 1] comes back within steps / 32768
RecoveredWithin(steps) ==
    /\ Len(calc.decoded) = Len(calc.float_samples)
    /\ \A i \in 1 .. Len(calc.float_samples) :
          Abs(calc.float_samples[i]) <= SampleDen =>
             Abs(calc.float_samples[i] - calc.decoded[i]) <= steps * (SampleDen \div FullScale)

\* C12 (amended): samples_to_wav followed by wav_to_samples yields a sequence
\* of the same length in which every sample in [-1, 1] is recovered within
\* 2/32768.
C12_RoundTripWithinTwoSteps == CodecDone => RecoveredWithin(2)

\* C12 as claimed: ... within 1/32768.
C12_Original == CodecDone => RecoveredWithin(1)

C12_Witness ==
    /\ CodecDone
    /\ calc.float_samples = <<SampleDen - 1, 0 - SampleDen>>
    /\ calc.wav.pcm = <<32766, 0 - 32767>>
    /\ calc.decoded = <<2 * 32766, 0 - (2 * 32767)>>

\* C13: resample returns a sequence of length exactly floor(n * to / from).
\* (Violated: the length is computed in f64 as (n * (to / from)) truncated,
\* and the rounded quotient can make the product fall just short of an
\* integer.)
C13_LengthIsExactFloor ==
    (calc.fn = "resample" /\ calc.stage >= 1) =>
        calc.len1 = (calc.n * calc.to_rate) \div calc.from_rate

\* C14: for r1 # r2 the length of resample(resample(S, r1, r2), r2, r1) is at
\* most len(S) and at least len(S) - ceil(r1 / r2).
C14_RoundTripLength ==
    (calc.fn = "resample" /\ calc.stage = 2 /\ calc.from_rate # calc.to_rate) =>
        /\ calc.len2 <= calc.n
        /\ calc.n - calc.len2 <= (calc.from_rate + calc.to_rate - 1) \div calc.to_rate

C14_Witness ==
    /\ calc.fn = "resample" /\ calc.stage = 2
    /\ calc.n = 11 /\ calc.from_rate = 11 /\ calc.to_rate = 15
    /\ calc.len1 = 14 /\ calc.len2 = 10

\* a stop_recording call that passed the NotRecording check has returned
\* and nothing was called since
StopCompleted(p) ==
    pc[p] = "idle" /\ ret[p].op = "stop_recording" /\ ret[p].res # "NotRecording"

\* C31: every stop_recording call that passes the NotRecording check leaves
\* the session idle whatever its outcome: the flag is clear from the store
\* to the return and after it, a following is_recording returns false and a
\* following start_recording is not rejected with AlreadyRecording.
C31_StopLeavesIdle ==
    [][\A p \in Callers :
         /\ (pc[p] \in {"stop_snapshot", "stop_encode"} \/ StopCompleted(p)) => ~is_recording
         /\ (pc[p] \in {"stop_snapshot", "stop_encode"} /\ pc'[p] = "idle") =>
               /\ ~is_recording'
               /\ ret'[p].res \in {"Ok", "EmptyRecording", "EncodingError"}
         /\ StopCompleted(p) =>
               /\ ret'[p].op = "is_recording" => ret'[p].res = "false"
               /\ ret'[p].op = "start_recording" => ret'[p].res # "AlreadyRecording"]_vars

\* a start_recording that follows a stop with an empty snapshot was let in
C31_Witness ==
    /\ pc[1] = "start_clear"
    /\ ret[1].op = "stop_recording" /\ ret[1].res = "EmptyRecording"
    /\ Spawned # {}

DeviceLayerErrors ==
    {"DeviceEnumerationError", "SelectedDeviceNotFound", "NoInputDevice",
     "ConfigQueryError", "NoSupportedConfig"}

\* a start_recording call has failed with a device-layer error and nothing
\* was called since
StartFailed(p) ==
    pc[p] = "idle" /\ ret[p].op = "start_recording" /\ ret[p].res \in DeviceLayerErrors

\* C32: a start_recording call that fails with a device-layer error leaves
\* the session idle, leaves the recorded sample rate unchanged and spawns no
\* capture loop: from its entry to the failure the flag is clear, the rate
\* is not written and no thread is spawned, and a start_recording that
\* follows is not rejected with AlreadyRecording.
C32_FailedStartLeavesIdle ==
    [][\A p \in Callers :
         /\ (pc[p] \in {"start_clear", "start_device"} \/ pc'[p] = "start_clear") =>
               /\ ~is_recording /\ ~is_recording'
               /\ sample_rate' = sample_rate
               /\ Spawned' = Spawned
         /\ (pc[p] = "start_device" /\ pc'[p] = "idle") => ret'[p].res \in DeviceLayerErrors
         /\ StartFailed(p) =>
               /\ ~is_recording
               /\ ret'[p].op = "start_recording" => ret'[p].res # "AlreadyRecording"]_vars

\* after a recording at 48000 Hz, a start_recording failed for want of a
\* device: the rate is still 48000 and the next start_recording was let in
C32_Witness ==
    /\ pc[1] = "start_clear"
    /\ ret[1].op = "start_recording" /\ ret[1].res = "NoInputDevice"
    /\ sample_rate = 48000 /\ Cardinality(Spawned) = 1

\* the capture attempt of the recording in progress has failed: its thread
\* panicked at build_input_stream or at play
AttemptFailed == is_recording /\ \E t \in ThreadIds : Latest(t) /\ thread[t].st = "panicked"

\* C33: if stream construction or stream start fails in the capture thread
\* after start_recording returned success, no sample is ever appended for
\* that recording, the session stays recording until stop_recording is
\* called, and that stop_recording fails with EmptyRecording and leaves the
\* session idle.  (Violated: the capture loop of an earlier recording that
\* has not polled the flag since it was stopped, C3, appends to the buffer
\* of this recording, and stop_recording returns its samples.)
C33_FailedAttemptRecordsNothing ==
    [][/\ AttemptFailed => (samples = <<>> /\ samples' = <<>>)
       /\ (AttemptFailed /\ ~is_recording') => \E p \in Callers : pc[p] = "stop_flag"
       /\ \A p \in Callers :
             (pc[p] = "stop_snapshot" /\ pc'[p] # "stop_snapshot"
                /\ \E t \in ThreadIds : Latest(t) /\ thread[t].st = "panicked") =>
                /\ pc'[p] = "idle" /\ ret'[p].res = "EmptyRecording"
                /\ ~is_recording']_vars

\* C30: while a workflow's cleanup network call is in flight, the workflow
\* holds no lock (not the engine's, not the client configuration's, none of
\* the recording session): a capture callback that is appending can append,
\* start_recording and stop_recording can be entered, set_ollama_enabled and
\* set_ollama_model (and load_whisper_model) can run.
C30_NothingHeldInFlight ==
    (wf.op = "transcribe_and_cleanup" /\ wf.pc = "awaiting") =>
       /\ wf.held = {}
       /\ ENABLED SetOllamaEnabled
       /\ ENABLED SetOllamaModel
       /\ ENABLED LoadWhisperModel
       /\ \A t \in ThreadIds :
             (thread[t].st = "playing" /\ thread[t].cb) => ENABLED Callback_Push(t)
       /\ \A p \in Callers :
             pc[p] = "idle" =>
                /\ ENABLED StopRecording_Enter(p)
                /\ Cardinality(Spawned) < MaxThreads => ENABLED StartRecording_Enter(p)

\* the call is in flight while a recording runs and its callback is about
\* to append, and the client's model has been set since the call read it
C30_Witness ==
    /\ wf.op = "transcribe_and_cleanup" /\ wf.pc = "awaiting"
    /\ is_recording /\ samples # <<>>
    /\ \E t \in ThreadIds : thread[t].st = "playing" /\ thread[t].cb
    /\ ollama.model # wf.client.model

\* a step in which cleanup_text builds and sends its request
SendsRequest == wf.pc # "awaiting" /\ wf'.pc = "awaiting"

\* C29: every request that cleanup_text sends is single-turn and stateless:
\* its context is the empty list, stream is false, and its model is the
\* client's configured model at the time of the call (with the text given to
\* the call); no step of a cleanup call or of the workflow modifies the
\* client, and a request in flight is not changed, so that a request is
\* determined by the configuration and the arguments of its own call.
C29_StatelessRequest ==
    [][/\ SendsRequest =>
            /\ wf'.request.context = <<>>
            /\ wf'.request.stream = FALSE
            /\ wf'.request.model = ollama.model
            /\ wf'.request.text = IF wf'.op = "cleanup_text" THEN wf'.text
                                  ELSE Trim(wf.transcription.text)
       /\ wf' # wf => ollama' = ollama
       /\ (wf.pc = "awaiting" /\ wf'.pc = "awaiting") => wf'.request = wf.request]_vars

\* a request in flight carries the model configured when it was sent,
\* while the configuration has been changed since
C29_Witness ==
    /\ wf.pc = "awaiting"
    /\ wf.request.model = "phi3:3.8b" /\ ollama.model = "gemma2:2b"
    /\ wf.request.context = <<>> /\ ~wf.request.stream

\* |k| / SampleDen * 32767 as the f32 product: the exact product rounded to
\* 24 significant bits (ties to even), as [num, den] with value num / den.
\* For |k| > SampleDen + 2 the product is beyond 32768 and only that is kept.
ScaledF32(k) ==
    LET a    == Abs(k)
        p    == a * 32767
        unit == CHOOSE u \in {1, 2, 4, 8, 16, 32, 64, 128} :
                   /\ p \div u < 16777216
                   /\ u > 1 => p \div (u \div 2) >= 16777216
        q    == p \div unit
        r    == p % unit
    IN  IF a > SampleDen + 2 THEN [num |-> 32769, den |-> 1]
        ELSE [num |-> IF 2 * r > unit \/ (2 * r = unit /\ q % 2 = 1) THEN q + 1 ELSE q,
              den |-> SampleDen \div unit]

\* the scaled value limited to limit, with its fraction dropped
TruncatedScaled(k, limit) ==
    LET f == ScaledF32(k)
    IN  IF f.num \div f.den >= limit THEN limit ELSE f.num \div f.den
\* the scaled value limited to limit, rounded to the nearest integer
RoundedScaled(k, limit) ==
    LET f == ScaledF32(k)
    IN  IF f.num \div f.den >= limit THEN limit
        ELSE f.num \div f.den + (IF 2 * (f.num % f.den) >= f.den THEN 1 ELSE 0)

CodecEncoded == calc.fn = "codec" /\ calc.stage >= 1

\* C28 (amended): samples_to_wav writes, for each float sample s, the scaled
\* value s * 32767 (an f32 product) clamped to [-32768, 32767] with its
\* fraction dropped (rounded toward zero), one integer per input sample in
\* input order.
C28_WritesTruncated ==
    CodecEncoded =>
       /\ Len(calc.wav.pcm) = Len(calc.float_samples)
       /\ \A i \in 1 .. Len(calc.float_samples) :
             calc.wav.pcm[i] =
                IF calc.float_samples[i] >= 0
                THEN TruncatedScaled(calc.float_samples[i], 32767)
                ELSE 0 - TruncatedScaled(calc.float_samples[i], 32768)

\* C28 as claimed: ... the scaled value rounded to the nearest integer after
\* clamping.
C28_Original ==
    CodecEncoded =>
       /\ Len(calc.wav.pcm) = Len(calc.float_samples)
       /\ \A i \in 1 .. Len(calc.float_samples) :
             calc.wav.pcm[i] =
                IF calc.float_samples[i] >= 0
                THEN RoundedScaled(calc.float_samples[i], 32767)
                ELSE 0 - RoundedScaled(calc.float_samples[i], 32768)

\* a clamped sample and one whose fraction is dropped, written in order
C28_Witness ==
    /\ CodecEncoded
    /\ calc.float_samples = <<0 - 2 * SampleDen, SampleDen - 1>>
    /\ calc.wav.pcm = <<0 - 32768, 32766>>

\* C27: every source index that resample reads is within [0, n-1]: in each
\* turn of the loop the floor index is at most n-1 and the ceil index is
\* min(floor index + 1, n-1), and no read panics; for an empty input the
\* loop takes no turn, so no index is computed or read.
C27_ReadsWithinInput ==
    calc.fn = "resample_loop" =>
       /\ ~calc.panicked
       /\ calc.i > 0 =>
             /\ calc.floor \in 0 .. calc.n - 1
             /\ calc.ceil \in 0 .. calc.n - 1
             /\ calc.ceil = calc.floor + 1 \/ (calc.ceil = calc.n - 1 /\ calc.floor = calc.n - 1)
       /\ calc.n = 0 => (calc.i = 0 /\ calc.floor = NoIndex /\ calc.ceil = NoIndex)

\* the last turn of a loop read the last sample twice: the clamp acted
C27_Witness ==
    /\ calc.fn = "resample_loop" /\ calc.n > 1 /\ calc.from_rate # calc.to_rate
    /\ calc.i = ResampleLen(calc.n, calc.from_rate, calc.to_rate)
    /\ calc.floor = calc.n - 1 /\ calc.ceil = calc.n - 1

\* C26: a successful stop_recording resamples if and only if the recorded
\* rate differs from 16000: the container declares mono, 16000 Hz, 16 bits,
\* and holds floor(n * 16000 / rate) samples for a snapshot of n samples (n
\* when the rate is 16000).  (Violated through the length of resample, C13.)
C26_EncodedLength ==
    (calc.fn = "stop_encode" /\ calc.stage = 1) =>
       /\ calc.wav.channels = 1 /\ calc.wav.sample_rate = 16000 /\ calc.wav.bits = 16
       /\ calc.wav.frames =
             IF calc.sample_rate = 16000 THEN Len(calc.snapshot)
             ELSE (Len(calc.snapshot) * 16000) \div calc.sample_rate

Cleaned == calc.fn = "clean_response" /\ calc.stage = 1

\* t is a run of spaces, then a run of quotes, then a run of spaces
SpacesQuotesSpaces(t) ==
    \E a, b \in 0 .. Len(t) :
       /\ a <= b
       /\ \A i \in 1 .. Len(t) :
             t[i] = (IF i <= a THEN " " ELSE IF i <= b THEN "\"" ELSE " ")

Reversed(t) == [i \in 1 .. Len(t) |-> t[Len(t) + 1 - i]]

\* c is r without a head and a tail, each (read from its end of r inwards)
\* spaces, quotes, spaces; c has no space at either end, and a quote at an
\* end of c is one that a space separates from the quotes taken off
CleanedFrom(r, c) ==
    \E i \in 1 .. Len(r) + 1 : \E j \in i - 1 .. Len(r) :
       /\ c = SubSeq(r, i, j)
       /\ SpacesQuotesSpaces(SubSeq(r, 1, i - 1))
       /\ SpacesQuotesSpaces(Reversed(SubSeq(r, j + 1, Len(r))))
       /\ c # <<>> =>
             /\ c[1] # " " /\ c[Len(c)] # " "
             /\ c[1] = "\"" => (i > 1 /\ r[i - 1] = " " /\ Contains(SubSeq(r, 1, i - 1), "\""))
             /\ c[Len(c)] = "\"" =>
                   (j < Len(r) /\ r[j + 1] = " " /\ Contains(SubSeq(r, j + 1, Len(r)), "\""))
       /\ c = <<>> => \A k \in 1 .. Len(r) : r[k] \in {" ", "\""}

\* C15 (amended): on a successful response cleanup_text returns the
\* service's text with surrounding whitespace removed, then every leading
\* and every trailing quote character removed (however many layers, paired
\* or not), then surrounding whitespace removed again; the characters in
\* between, quotes included, are kept.
C15_AllOuterQuotesRemoved == Cleaned => CleanedFrom(calc.response, calc.cleaned)

\* C15 as claimed: exactly one layer of enclosing quotes is removed, so a
\* response wrapped in two layers keeps the inner one, and a quote that is
\* not one of an enclosing pair is kept.
C15_Original ==
    Cleaned => calc.cleaned = Trim(StripOnePair(Trim(calc.response), "\""))

C15_Witness ==
    /\ Cleaned
    /\ calc.response = <<"\"", "\"", "a", "\"", " ">>
    /\ calc.cleaned = <<"a">>

Probed == calc.fn = "check_availability" /\ calc.stage = 1

BodyNamesModel ==
    Contains(calc.outcome.body, calc.model) \/ Contains(calc.outcome.body, "models")

\* C17 (amended): check_availability never returns an error; it returns
\* false on any connection failure, and returns true only if the service
\* answered with a success status and the response content either could
\* not be read or contains the configured model name or "models".
C17_ProbeNeverRaises ==
    Probed =>
       /\ calc.result.res = "Ok"
       /\ calc.outcome.kind \in {"connect_error", "send_error"} => ~calc.result.value
       /\ calc.result.value =>
             \/ calc.outcome.kind = "body_unreadable"
             \/ calc.outcome.kind = "ok" /\ BodyNamesModel

\* C17 as claimed: true only if the service was reachable and the content
\* of the response names the model or a models collection.
C17_Original ==
    Probed =>
       /\ calc.result.res = "Ok"
       /\ calc.outcome.kind \in {"connect_error", "send_error"} => ~calc.result.value
       /\ calc.result.value => (calc.outcome.kind = "ok" /\ BodyNamesModel)

C17_Witness ==
    /\ Probed /\ calc.outcome.kind = "body_unreadable"
    /\ calc.result = [res |-> "Ok", value |-> TRUE]

\* the seven stable identifiers
StableIds ==
    {"default", "email", "bullets", "summary", "slack", "meeting_notes", "code_comment"}

\* C18: the mode catalog is a bijection between the seven variants and the
\* seven identifiers: from_str(as_str(m)) = m, as_str is injective, and a
\* string that is none of the identifiers, compared case-insensitively,
\* resolves to Default.
C18_CatalogBijection ==
    /\ (calc.fn = "as_str" /\ calc.stage >= 1) =>
          /\ calc.id \in StableIds
          /\ calc.id = calc.id2 => calc.m = calc.m2
    /\ (calc.fn = "as_str" /\ calc.stage = 2) => calc.back = calc.m
    /\ (calc.fn = "from_str" /\ calc.stage = 1) =>
          /\ calc.mode \in AllModes
          /\ ToLowercase(calc.s) \notin StableIds => calc.mode = "Default"
          /\ ToLowercase(calc.s) \in StableIds => AsStr(calc.mode) = ToLowercase(calc.s)
    /\ Cardinality(AllModes) = 7 /\ Cardinality(StableIds) = 7

C18_Witness ==
    /\ calc.fn = "as_str" /\ calc.stage = 2
    /\ calc.m = "MeetingNotes" /\ calc.id = "meeting_notes" /\ calc.back = "MeetingNotes"

=============================================================================
